---- MODULE Spec2Model ----
(***************************************************************************)
(* Verification model of the Interstellar cargo placement service.         *)
(*                                                                         *)
(* Lengths are integers in hundredths of the program's length unit         *)
(* (100 = 1.0), so the batch planner's scan increment 0.1 is 10 and its    *)
(* early-exit waste 1.0 is 100.  The program's floats are modelled as      *)
(* exact rationals.  An epsilon smaller than one hundredth is kept by      *)
(* scaling both sides of the comparison it appears in (Thou, Mill).        *)
(*                                                                         *)
(* A box is the tuple <<x0, y0, z0, x1, y1, z1>> (width -> x, depth -> y,  *)
(* height -> z), the layout of optimize_placement's occupied_spaces.       *)
(* A zone name is a sequence of characters, so that str.strip() is         *)
(* computed rather than assumed.                                           *)
(*                                                                         *)
(* Specifications:                                                         *)
(*   SpecBatch  CargoPlacementSystem.optimize_placement and the            *)
(*              cargo_arrangement.csv file it appends to.                  *)
(*   SpecACP    AdvancedCargoPlacement: construction for a container and   *)
(*              find_optimal_placement over the class-level state.         *)
(*   SpecPlace  POST /api/place over the temp_*.csv files.                 *)
(*   SpecGate      optimize_placement on near-full containers.             *)
(*   SpecInvalid   optimize_placement on items with invalid fields.        *)
(*   SpecStock     POST /api/retrieve and /api/place with waste and log.   *)
(*   SpecServe     two overlapping requests on one event loop.             *)
(*   SpecLogs      log_action, add_log_entry and GET /api/logs.            *)
(*   SpecSearch    GET /api/search together with retrievals.               *)
(*   SpecClear     clear_logs followed by the reading requests.            *)
(*   SpecOctree    Octree.place_item on one container.                     *)
(*   SpecBlocking  _is_blocking.                                           *)
(*   SpecMatrix    SparseMatrix with _can_place_item and _place_item.      *)
(*   SpecRearrange find_optimal_placement and rearrange_for_new_item.      *)
(*   SpecScan      find_valid_position alone.                              *)
(***************************************************************************)
EXTENDS Integers, Sequences, FiniteSets, TLC

VARIABLES
    items_df,           \* CargoPlacementSystem.items_df: sequence of item rows
    containers_df,      \* CargoPlacementSystem.containers_df: sequence of container rows
    cargo_arrangement,  \* rows of cargo_arrangement.csv
    placements_data,    \* optimize_placement: placement list of the latest call
    unplaced_items,     \* optimize_placement: unplaced list of the latest call
    batch_order,        \* optimize_placement: the order the latest call processed the items in
    batch_calls,        \* number of optimize_placement calls made
    batch_trail,        \* optimize_placement: what the container loop of the latest call did, per item
    last_op,            \* the operation that produced the current state
    _container_states,  \* AdvancedCargoPlacement._container_states: key -> current_placements
    acp_last,           \* find_optimal_placement: arguments and return value of the latest call
    acp_prev,           \* the same for the call before it
    acp_calls,          \* number of find_optimal_placement calls made
    temp_cargo,         \* rows of temp_cargo_arrangement.csv
    temp_items,         \* rows of temp_imported_items.csv
    temp_containers,    \* rows of temp_imported_containers.csv
    place_request,      \* POST /api/place: the latest request
    place_response,     \* POST /api/place: the latest response
    place_calls,        \* number of POST /api/place requests served
    waste_items,        \* rows of waste_items.csv (no rows: the file does not exist)
    item_retrievals,    \* rows of item_retrievals.csv
    retrieve_request,   \* POST /api/retrieve: the latest request
    retrieve_response,  \* POST /api/retrieve: the latest response
    retrieve_calls,     \* number of POST /api/retrieve requests served
    rearr_last,         \* rearrange_for_new_item: arguments and outcome of the latest call
    rearr_calls,        \* number of rearrange_for_new_item calls made
    space_matrix,       \* SparseMatrix.grid: the set of <<cell, region>> with region in grid[cell]
    matrix_last,        \* SparseMatrix: the latest call, its box and its outcome
    blocking_boxes,     \* _is_blocking: the boxes of the placed items "T" and "B"
    blocking_last,      \* _is_blocking: arguments and outcome of the latest call
    blocking_calls,     \* number of _is_blocking calls made
    scan_container,     \* find_valid_position: the container row the calls are made for
    scan_spaces,        \* its occupied_spaces
    scan_used,          \* its used_volume
    scan_last,          \* find_valid_position: arguments and return value of the latest call
    scan_calls,         \* number of find_valid_position calls made
    inflight,           \* the requests being served: per slot, the request, the handler's position and its locals
    serial_world,       \* the files as they were before the first of these requests arrived
    logs_csv,           \* rows of logs.csv (the file exists from import of routers.logs on)
    log_last,           \* logs router: the latest operation, its arguments and its outcome
    log_calls,          \* number of logs router operations made
    search_last,        \* GET /api/search: the latest request and its response
    search_calls,       \* number of GET /api/search requests served
    imported_items,     \* rows of imported_items.csv (None: no such file)
    imported_containers,\* rows of imported_containers.csv (None: no such file)
    clear_calls,        \* number of POST /api/clear requests served
    octree_container,   \* Octree: the container row the tree was built for
    octree_occupied,    \* Octree: the paths (child numbers from the root) of the octants with occupied = True
    octree_placed,      \* Octree.place_item: the boxes returned so far, in call order
    octree_last         \* Octree.place_item: the item and the return value of the latest call

batchVars == <<items_df, containers_df, cargo_arrangement, placements_data,
               unplaced_items, batch_order, batch_calls, batch_trail>>

acpVars == <<_container_states, acp_last, acp_prev, acp_calls>>

placeVars == <<temp_cargo, temp_items, temp_containers, place_request,
               place_response, place_calls>>

retrieveVars == <<waste_items, item_retrievals, retrieve_request, retrieve_response,
                  retrieve_calls>>

scanVars == <<scan_container, scan_spaces, scan_used, scan_last, scan_calls>>

blockingVars == <<blocking_boxes, blocking_last, blocking_calls>>

matrixVars == <<space_matrix, matrix_last>>

rearrangeVars == <<rearr_last, rearr_calls>>

serveVars == <<inflight, serial_world>>

logVars == <<logs_csv, log_last, log_calls>>

searchVars == <<search_last, search_calls>>

clearVars == <<imported_items, imported_containers, clear_calls>>

octreeVars == <<octree_container, octree_occupied, octree_placed, octree_last>>

vars == <<batchVars, acpVars, placeVars, retrieveVars, scanVars, blockingVars,
          matrixVars, rearrangeVars,
          serveVars,
          logVars,
          searchVars,
          clearVars,
          octreeVars, last_op>>

\* The variables an operation of one subsystem leaves alone.
outsideBatch == <<acpVars, placeVars, retrieveVars, scanVars, blockingVars, matrixVars,
                  rearrangeVars,
    serveVars,
    logVars,
    searchVars,
    clearVars,
    octreeVars>>

outsideACP == <<batchVars, placeVars, retrieveVars, scanVars, blockingVars, matrixVars,
                rearrangeVars,
    serveVars,
    logVars,
    searchVars,
    clearVars,
    octreeVars>>

outsidePlace == <<batchVars, acpVars, retrieveVars, scanVars, blockingVars, matrixVars,
                  rearrangeVars,
    serveVars,
    logVars,
    searchVars,
    clearVars,
    octreeVars>>

outsideRetrieve == <<batchVars, acpVars, scanVars, blockingVars, matrixVars,
                     rearrangeVars,
    serveVars,
    logVars,
    searchVars,
    clearVars,
    octreeVars>>

outsideScan == <<batchVars, acpVars, placeVars, retrieveVars, blockingVars, matrixVars,
                 rearrangeVars,
    serveVars,
    logVars,
    searchVars,
    clearVars,
    octreeVars>>

outsideBlocking == <<batchVars, acpVars, placeVars, retrieveVars, scanVars, matrixVars,
                     rearrangeVars,
    serveVars,
    logVars,
    searchVars,
    clearVars,
    octreeVars>>

outsideRearrange == <<batchVars, placeVars, retrieveVars, scanVars, blockingVars,
                      matrixVars,
    serveVars,
    logVars,
    searchVars,
    clearVars,
    octreeVars>>

outsideServe == <<batchVars, acpVars, scanVars, blockingVars, matrixVars, rearrangeVars,
                 temp_containers, place_request, place_response, place_calls,
                 retrieve_request, retrieve_response, retrieve_calls,
    logVars,
    searchVars,
    clearVars,
    octreeVars>>

outsideLog == <<batchVars, acpVars, placeVars, retrieveVars, scanVars, blockingVars,
               matrixVars, rearrangeVars, serveVars, searchVars, clearVars,
    octreeVars>>

outsideSearch == <<batchVars, acpVars, placeVars, retrieveVars, scanVars, blockingVars,
                  matrixVars, rearrangeVars, serveVars, clearVars,
    octreeVars>>

outsideOctree == <<batchVars, acpVars, placeVars, retrieveVars, scanVars, blockingVars,
                  matrixVars, rearrangeVars, serveVars, logVars, searchVars, clearVars>>

outsideMatrix == <<batchVars, acpVars, placeVars, retrieveVars, scanVars, blockingVars,
                   rearrangeVars,
    serveVars,
    logVars,
    searchVars,
    clearVars,
    octreeVars>>

(***************************************************************************)
(* Bounds of the model.                                                    *)
(***************************************************************************)
MaxBatch == 2
MaxCalls == 2

(***************************************************************************)
(* Generic helpers.                                                        *)
(***************************************************************************)
None == <<>>

Min2(a, b) == IF a <= b THEN a ELSE b

SetMin(S) == CHOOSE m \in S : \A n \in S : m <= n

Abs(a) == IF a < 0 THEN -a ELSE a

RECURSIVE SeqSum(_)
SeqSum(s) == IF s = <<>> THEN 0 ELSE Head(s) + SeqSum(Tail(s))

Range(s) == {s[i] : i \in DOMAIN s}

\* Sequences of distinct elements of S of length at most n.
RECURSIVE DistinctSeqs(_, _)
DistinctSeqs(S, n) ==
    IF n = 0 THEN {<<>>}
    ELSE LET shorter == DistinctSeqs(S, n - 1)
         IN shorter \cup UNION {{Append(s, e) : e \in S \ Range(s)} :
                                s \in {t \in shorter : Len(t) = n - 1}}

\* Injective maps 1..n -> 1..n.
Perms(n) == {p \in [1..n -> 1..n] : \A i, j \in 1..n : i # j => p[i] # p[j]}

(***************************************************************************)
(* Zone names and str.strip().                                             *)
(***************************************************************************)
RECURSIVE LStrip(_)
LStrip(z) == IF z # <<>> /\ Head(z) = " " THEN LStrip(Tail(z)) ELSE z

RECURSIVE RStrip(_)
RStrip(z) == IF z # <<>> /\ z[Len(z)] = " " THEN RStrip(SubSeq(z, 1, Len(z) - 1)) ELSE z

Strip(z) == RStrip(LStrip(z))

ZoneA == <<"A">>
ZoneASpaced == <<" ", "A">>
ZoneB == <<"B">>
ZoneC == <<"C">>

(***************************************************************************)
(* The catalogs the model draws its worlds from.                           *)
(***************************************************************************)
Item(id, w, d, h, m, p, z) ==
    [itemId |-> id, width |-> w, depth |-> d, height |-> h, mass |-> m,
     priority |-> p, preferredZone |-> z]

Container(id, z, w, d, h) ==
    [containerId |-> id, zone |-> z, width |-> w, depth |-> d, height |-> h]

ItemPool ==
    { Item(1, 100, 100, 100, 10, 50, ZoneA),
      Item(2, 100, 100, 100, 10, 50, ZoneA),        \* ties with item 1 on priority and volume
      Item(3, 100, 200, 100, 10, 50, ZoneA),        \* fits contA only when rotated
      Item(4, 100, 100, 100, 10, 50, ZoneC),        \* no container in its zone
      Item(5, 100, 100, 100, 10, 40, ZoneASpaced),  \* zone written with a leading blank
      Item(7, 54, 50, 50, 10, 90, ZoneA),           \* small; width not a multiple of 0.1
      Item(8, 400, 400, 400, 10, 70, ZoneA) }       \* fits nowhere

\* Items the Item schema accepts although the planner's contract calls them
\* invalid input: the schema types the fields and constrains none of them.
InvalidItemPool ==
    { Item(31, 0, 100, 100, 10, 50, ZoneA),         \* width 0
      Item(32, -100, 100, 100, 10, 50, ZoneA),      \* negative width
      Item(33, 100, 100, -50, 10, 50, ZoneA),       \* negative height
      Item(34, 100, 100, 100, -10, 50, ZoneA),      \* negative mass
      Item(35, 100, 100, 100, 10, 150, ZoneA),      \* priority above 100
      Item(36, 100, 100, 100, 10, -5, ZoneA) }      \* priority below 0

InvalidCatalogs ==
    DistinctSeqs(InvalidItemPool \cup {i \in ItemPool : i.itemId = 1}, MaxBatch)

contA == Container("contA", ZoneA, 200, 100, 100)
contA2 == Container("contA2", ZoneA, 200, 100, 100)
contBig == Container("contBig", ZoneA, 300, 200, 100)
contB == Container("contB", ZoneB, 200, 100, 100)

contTiny == Container("contTiny", ZoneA, 50, 50, 50)
contTall == Container("contTall", ZoneA, 100, 100, 200)

\* The item catalogs a world may hold: up to MaxBatch distinct items of the pool.
ItemCatalogs == DistinctSeqs(ItemPool, MaxBatch)

\* Items that bring a container to the capacity limit of the container loop:
\* contA holds 2.0 x 1.0 x 1.0, so item 11 fills it to 0.85 and item 12 to 0.90.
GateItemPool ==
    { Item(11, 170, 100, 100, 10, 90, ZoneA),
      Item(12, 180, 100, 100, 10, 90, ZoneA),
      Item(13, 10, 100, 100, 10, 50, ZoneA),
      Item(14, 20, 100, 100, 10, 50, ZoneA),
      Item(1, 100, 100, 100, 10, 50, ZoneA) }

GateCatalogs == DistinctSeqs(GateItemPool, MaxBatch)

\* contTiny is a zone A container too small for any item of the pool.
GateWorlds ==
    { <<contA, contA2>>,
      <<contA, contBig, contTiny>> }

ContainerWorlds ==
    { <<>>,
      <<contA, contA2, contB>>,
      <<contBig, contA>> }

(***************************************************************************)
(* CargoPlacementSystem.optimize_placement (src/schemas.py).               *)
(***************************************************************************)
increment == 10         \* 0.1
epsilon == 1            \* 0.001, in thousandths
WasteExit == 100        \* 1.0

Thou(v) == 10 * v       \* hundredths to thousandths

Volume(r) == r.width * r.depth * r.height

\* f"{v:.1f}": the value rounded to one decimal (ties to even).
Fmt1(v) ==
    LET q == v \div 10
        r == v % 10
    IN IF r < 5 THEN 10 * q
       ELSE IF r > 5 THEN 10 * (q + 1)
       ELSE IF q % 2 = 0 THEN 10 * q ELSE 10 * (q + 1)

\* The "coordinates" string of a placement record, as the box it denotes.
FormatCoordinates(x, y, z, w, d, h) ==
    <<Fmt1(x), Fmt1(y), Fmt1(z), Fmt1(x + w), Fmt1(y + d), Fmt1(z + h)>>

\* One position of list s after a stable sort by volume (list.sort is stable,
\* also with reverse=True): e goes behind every element that is not after it.
InsertByVolume(s, e, reverse) ==
    LET After(x) == IF reverse THEN Volume(containers_df[x]) < Volume(containers_df[e])
                               ELSE Volume(containers_df[x]) > Volume(containers_df[e])
        k == Cardinality({i \in DOMAIN s : ~After(s[i])})
    IN SubSeq(s, 1, k) \o <<e>> \o SubSeq(s, k + 1, Len(s))

\* list.sort(key=volume, reverse=...) on a list of container row numbers.
RECURSIVE SortByVolume(_, _)
SortByVolume(s, reverse) ==
    IF s = <<>> THEN <<>>
    ELSE InsertByVolume(SortByVolume(SubSeq(s, 1, Len(s) - 1), reverse), s[Len(s)], reverse)

\* containers_by_zone[zone]: the rows of containers_df with that zone, by volume.
ContainersByZone(zone) ==
    SortByVolume(SelectSeq([i \in 1..Len(containers_df) |-> i],
                           LAMBDA i : containers_df[i].zone = zone), FALSE)

\* The per-call planner state: for each container row its occupied_spaces and used_volume.
EmptyContainerState ==
    [i \in 1..Len(containers_df) |-> [occupied_spaces |-> <<>>, used_volume |-> 0]]

\* items_with_volume: polars sort by priority and volume, both descending; rows
\* equal in both keys come in an order the library does not fix.
KeyGE(a, b) ==
    \/ a.priority > b.priority
    \/ a.priority = b.priority /\ Volume(a) >= Volume(b)

SortedOrders(df) ==
    { [i \in 1..Len(df) |-> df[p[i]]] :
        p \in {q \in Perms(Len(df)) :
                 \A i, j \in 1..Len(df) : i < j => KeyGE(df[q[i]], df[q[j]])} }

check_overlap(x, y, z, w, d, h, container, spaces) ==
    \/ x < 0 \/ y < 0 \/ z < 0
    \/ Thou(x + w) > Thou(container.width) + epsilon
    \/ Thou(y + d) > Thou(container.depth) + epsilon
    \/ Thou(z + h) > Thou(container.height) + epsilon
    \/ \E i \in DOMAIN spaces :
         ~ \/ Thou(x) + epsilon >= Thou(spaces[i][4])
           \/ Thou(spaces[i][1]) + epsilon >= Thou(x + w)
           \/ Thou(y) + epsilon >= Thou(spaces[i][5])
           \/ Thou(spaces[i][2]) + epsilon >= Thou(y + d)
           \/ Thou(z) + epsilon >= Thou(spaces[i][6])
           \/ Thou(spaces[i][3]) + epsilon >= Thou(z + h)

\* dist of one occupied space to the candidate box (lines 493-500).
SpaceDist(x, y, z, w, d, h, space) ==
    SetMin({Abs(x - space[4]), Abs(x + w - space[1]),
            Abs(y - space[5]), Abs(y + d - space[2]),
            Abs(z - space[6]), Abs(z + h - space[3])})

RECURSIVE MinDistToItems(_, _, _, _, _, _, _)
MinDistToItems(x, y, z, w, d, h, spaces) ==
    IF Len(spaces) = 1 THEN SpaceDist(x, y, z, w, d, h, spaces[1])
    ELSE Min2(SpaceDist(x, y, z, w, d, h, Head(spaces)),
              MinDistToItems(x, y, z, w, d, h, Tail(spaces)))

Waste(x, y, z, w, d, h, container, spaces) ==
    z * 3
    + Min2(x, container.width - (x + w))
    + Min2(y, container.depth - (y + d))
    + (IF spaces # <<>> THEN MinDistToItems(x, y, z, w, d, h, spaces) ELSE 0)

\* The scan position number idx of find_valid_position: z outermost, then y,
\* then x, each from 0 to int((container size - item size) / increment).
ScanPoint(container, w, d, h, idx) ==
    LET nx == (container.width - w) \div increment + 1
        ny == (container.depth - d) \div increment + 1
    IN <<(idx % nx) * increment,
         ((idx \div nx) % ny) * increment,
         (idx \div (nx * ny)) * increment>>

ScanCount(container, w, d, h) ==
    ((container.width - w) \div increment + 1)
    * ((container.depth - d) \div increment + 1)
    * ((container.height - h) \div increment + 1)

\* The last value of a loop variable of find_valid_position: int((size - item) / increment).
ScanMax(size, extent) == (size - extent) \div increment

\* The waste bookkeeping at a free position p (lines 502-510).  acc is the
\* loop state; best_pos = None stands for min_waste = inf, and done says that
\* the function has returned.
ScoreFree(acc, p, waste) ==
    [best_pos |-> IF acc.best_pos = None \/ waste < acc.min_waste THEN p ELSE acc.best_pos,
     min_waste |-> IF acc.best_pos = None \/ waste < acc.min_waste THEN waste
                   ELSE acc.min_waste,
     done |-> waste < WasteExit]

\* The body of the innermost loop at position p: the overlap test, then the waste.
VisitPosition(container, spaces, w, d, h, p, acc) ==
    IF check_overlap(p[1], p[2], p[3], w, d, h, container, spaces) THEN acc
    ELSE ScoreFree(acc, p, Waste(p[1], p[2], p[3], w, d, h, container, spaces))

\* The three nested loops of find_valid_position, z outermost, then y, then x.
RECURSIVE ScanX(_, _, _, _, _, _, _, _, _)
ScanX(container, spaces, w, d, h, zi, yi, xi, acc) ==
    IF acc.done \/ xi > ScanMax(container.width, w) THEN acc
    ELSE ScanX(container, spaces, w, d, h, zi, yi, xi + 1,
               VisitPosition(container, spaces, w, d, h,
                             <<xi * increment, yi * increment, zi * increment>>, acc))

RECURSIVE ScanY(_, _, _, _, _, _, _, _)
ScanY(container, spaces, w, d, h, zi, yi, acc) ==
    IF acc.done \/ yi > ScanMax(container.depth, d) THEN acc
    ELSE ScanY(container, spaces, w, d, h, zi, yi + 1,
               ScanX(container, spaces, w, d, h, zi, yi, 0, acc))

RECURSIVE ScanZ(_, _, _, _, _, _, _)
ScanZ(container, spaces, w, d, h, zi, acc) ==
    IF acc.done \/ zi > ScanMax(container.height, h) THEN acc
    ELSE ScanZ(container, spaces, w, d, h, zi + 1,
               ScanY(container, spaces, w, d, h, zi, 0, acc))

find_valid_position(container, spaces, w, d, h) ==
    ScanZ(container, spaces, w, d, h, 0,
          [best_pos |-> None, min_waste |-> 0, done |-> FALSE]).best_pos

\* One pass of the orientation loop's body for a container that passed the
\* capacity gate, with the orientation w x d x h: the call of
\* find_valid_position and, when it returns a position, the commit.
ScanAndCommit(w, d, h, position) ==
    /\ scan_last' = [container |-> scan_container, spaces |-> scan_spaces,
                     w |-> w, d |-> d, h |-> h, position |-> position]
    /\ scan_spaces' = IF position = None THEN scan_spaces
                      ELSE Append(scan_spaces,
                                  <<position[1], position[2], position[3],
                                    position[1] + w, position[2] + d, position[3] + h>>)
    /\ scan_used' = IF position = None THEN scan_used ELSE scan_used + w * d * h

\* The orientations the model calls find_valid_position with.
ScanDims ==
    { <<100, 100, 100>>, <<50, 50, 50>>, <<200, 100, 100>>, <<100, 200, 100>>,
      <<170, 100, 100>>, <<50, 100, 100>>, <<100, 100, 50>> }

FindValidPosition ==
    /\ scan_calls < MaxCalls
    /\ scan_container # None
    /\ 100 * scan_used <= 85 * Volume(scan_container)
    /\ \E dims \in ScanDims :
         /\ dims[1] <= scan_container.width
         /\ dims[2] <= scan_container.depth
         /\ dims[3] <= scan_container.height
         /\ ScanAndCommit(dims[1], dims[2], dims[3],
                          find_valid_position(scan_container, scan_spaces,
                                              dims[1], dims[2], dims[3]))
    /\ scan_calls' = scan_calls + 1
    /\ last_op' = "find_valid_position"
    /\ UNCHANGED <<scan_container, outsideScan>>

\* The six orientations, in the order the planner tries them.
Orientations(item_row) ==
    << <<item_row.width, item_row.depth, item_row.height>>,
       <<item_row.depth, item_row.width, item_row.height>>,
       <<item_row.width, item_row.height, item_row.depth>>,
       <<item_row.height, item_row.width, item_row.depth>>,
       <<item_row.depth, item_row.height, item_row.width>>,
       <<item_row.height, item_row.depth, item_row.width>> >>

\* The orientation loop for one container: the first orientation that fits the
\* container and has a valid position, as <<x, y, z, w, d, h>>, or None.
RECURSIVE TryOrientations(_, _, _, _)
RECURSIVE TryPosition(_, _, _, _, _)
TryOrientations(container, spaces, orientations, k) ==
    IF k > Len(orientations) THEN None
    ELSE IF \/ orientations[k][1] > container.width
            \/ orientations[k][2] > container.depth
            \/ orientations[k][3] > container.height
    THEN TryOrientations(container, spaces, orientations, k + 1)
    ELSE TryPosition(container, spaces, orientations, k,
                     find_valid_position(container, spaces, orientations[k][1],
                                         orientations[k][2], orientations[k][3]))

TryPosition(container, spaces, orientations, k, position) ==
    IF position # None
    THEN <<position[1], position[2], position[3],
           orientations[k][1], orientations[k][2], orientations[k][3]>>
    ELSE TryOrientations(container, spaces, orientations, k + 1)

\* The capacity gate with the limit itself shut out (>= in place of >).
AtOrAboveCapacityLimit(used_volume, volume) == 100 * used_volume >= 85 * volume

\* The capacity gate of the container loop: used_volume / volume > 0.85.
AboveCapacityLimit(used_volume, volume) == 100 * used_volume > 85 * volume

\* The container loop: the first container of the list that passes the capacity
\* gate and takes the item, as [index, hit] (index 0 and hit None when there is
\* none).  The result also carries what the loop did: the list it went through
\* (order) and the containers the gate made it skip, each with its used_volume
\* at that moment (skipped).
RECURSIVE TryContainers(_, _, _, _, _)
RECURSIVE TryContainer(_, _, _, _, _, _)
TryContainers(suitable, j, item_row, cs, skipped) ==
    IF j > Len(suitable)
    THEN [index |-> 0, hit |-> None, skipped |-> skipped, order |-> suitable]
    ELSE IF AboveCapacityLimit(cs[suitable[j]].used_volume,
                               Volume(containers_df[suitable[j]]))
    THEN TryContainers(suitable, j + 1, item_row, cs,
                       Append(skipped, [index |-> suitable[j],
                                        used_volume |-> cs[suitable[j]].used_volume]))
    ELSE TryContainer(suitable, j, item_row, cs, skipped,
                      TryOrientations(containers_df[suitable[j]],
                                      cs[suitable[j]].occupied_spaces,
                                      Orientations(item_row), 1))

TryContainer(suitable, j, item_row, cs, skipped, hit) ==
    IF hit # None
    THEN [index |-> suitable[j], hit |-> hit, skipped |-> skipped, order |-> suitable]
    ELSE TryContainers(suitable, j + 1, item_row, cs, skipped)

\* suitable_containers: the zone's containers the catalog orientation fits.
SuitableContainers(zone_containers, item_row) ==
    SelectSeq(zone_containers,
              LAMBDA i : /\ item_row.width <= containers_df[i].width
                         /\ item_row.depth <= containers_df[i].depth
                         /\ item_row.height <= containers_df[i].height)

\* is_small_item: item_volume < avg_container_volume * 0.3.
IsSmallItem(item_row, suitable) ==
    10 * Len(suitable) * Volume(item_row)
        < 3 * SeqSum([k \in 1..Len(suitable) |-> Volume(containers_df[suitable[k]])])

Unplaced(item_row, reason) == [itemId |-> item_row.itemId, reason |-> reason]

\* What the container loop did for one item, with the used_volume of the
\* container it chose as it was before the commit.
TrailEntry(st, item_row, found) ==
    [itemId |-> item_row.itemId,
     index |-> found.index,
     used_before |-> IF found.index = 0 THEN 0 ELSE st.cs[found.index].used_volume,
     skipped |-> found.skipped,
     order |-> found.order]

\* The commit of a found position: the container's state and the placement record.
Commit(st, item_row, preferred_zone, ci, hit) ==
    [st EXCEPT
       !.cs[ci].occupied_spaces =
           Append(@, <<hit[1], hit[2], hit[3],
                       hit[1] + hit[4], hit[2] + hit[5], hit[3] + hit[6]>>),
       !.cs[ci].used_volume = @ + hit[4] * hit[5] * hit[6],
       !.placements =
           Append(@, [itemId |-> item_row.itemId,
                      zone |-> preferred_zone,
                      containerId |-> containers_df[ci].containerId,
                      coordinates |-> FormatCoordinates(hit[1], hit[2], hit[3],
                                                        hit[4], hit[5], hit[6])])]

\* The end of the item loop's body: found is the result of the container loop.
PlaceOrReport(st, item_row, preferred_zone, found) ==
    IF found.hit = None
    THEN [st EXCEPT
            !.unplaced =
                Append(@, Unplaced(item_row, "No suitable space found in preferred zone containers")),
            !.trail = Append(@, TrailEntry(st, item_row, found))]
    ELSE [Commit(st, item_row, preferred_zone, found.index, found.hit) EXCEPT
            !.trail = Append(@, TrailEntry(st, item_row, found))]

\* The item loop's body from the shortlist on.
ProcessSuitable(st, item_row, preferred_zone, suitable) ==
    IF suitable = <<>>
    THEN [st EXCEPT !.unplaced =
             Append(@, Unplaced(item_row, "No container in preferred zone can fit this item"))]
    ELSE PlaceOrReport(st, item_row, preferred_zone,
                       TryContainers(SortByVolume(suitable, ~IsSmallItem(item_row, suitable)),
                                     1, item_row, st.cs, <<>>))

\* The item loop's body from the zone lookup on.
ProcessInZone(st, item_row, preferred_zone, zone_containers) ==
    IF zone_containers = <<>>
    THEN [st EXCEPT !.unplaced = Append(@, Unplaced(item_row, "No containers in zone"))]
    ELSE ProcessSuitable(st, item_row, preferred_zone,
                         SuitableContainers(zone_containers, item_row))

\* The body of the item loop: st = [cs, placements, unplaced].
ProcessItem(st, item_row) ==
    ProcessInZone(st, item_row, Strip(item_row.preferredZone),
                  ContainersByZone(Strip(item_row.preferredZone)))

RECURSIVE RunItems(_, _, _)
RunItems(order, k, st) ==
    IF k > Len(order) THEN st ELSE RunItems(order, k + 1, ProcessItem(st, order[k]))

\* The planner's run over the items in the given sorted order.
optimize_placement(order) ==
    IF items_df = <<>> \/ containers_df = <<>>
    THEN [cs |-> EmptyContainerState, placements |-> <<>>, unplaced |-> <<>>,
          trail |-> <<>>]
    ELSE RunItems(order, 1, [cs |-> EmptyContainerState, placements |-> <<>>,
                             unplaced |-> <<>>, trail |-> <<>>])

\* One call of optimize_placement, with its append to cargo_arrangement.csv.
OptimizePlacement ==
    /\ batch_calls < MaxCalls
    /\ \E order \in SortedOrders(items_df) :
         /\ batch_order' = IF items_df = <<>> \/ containers_df = <<>> THEN <<>> ELSE order
         /\ \E res \in {optimize_placement(order)} :
              /\ placements_data' = res.placements
              /\ unplaced_items' = res.unplaced
              /\ batch_trail' = res.trail
              /\ cargo_arrangement' = cargo_arrangement \o res.placements
    /\ batch_calls' = batch_calls + 1
    /\ last_op' = "optimize_placement"
    /\ UNCHANGED <<items_df, containers_df, outsideBatch>>

\* CargoPlacementSystem.add_items with one new item of the pool.
AddItems ==
    /\ Len(items_df) < MaxBatch
    /\ \E item \in ItemPool :
         /\ \A i \in DOMAIN items_df : items_df[i].itemId # item.itemId
         /\ items_df' = Append(items_df, item)
    /\ last_op' = "add_items"
    /\ UNCHANGED <<containers_df, cargo_arrangement, placements_data, unplaced_items,
                   batch_order, batch_calls, batch_trail, outsideBatch>>



(***************************************************************************)
(* AdvancedCargoPlacement (src/algos/placement_algo.py).                   *)
(***************************************************************************)
EPSILON == 1            \* 1e-6, in millionths

Mill(v) == 10000 * v    \* hundredths to millionths

\* The items and containers the planner is called with.
ACPItemPool == {item \in ItemPool : item.itemId \in {1, 3, 8}}

ACPBatches == DistinctSeqs(ACPItemPool, MaxBatch)

ACPContainers == {contA, contA2, contBig}

ItemIds == {item.itemId : item \in ItemPool}

\* self.container_key: the f-string of the three dimensions, as their triple.
container_key(container_dims) ==
    <<container_dims.width, container_dims.depth, container_dims.height>>

ContainerKeys == {container_key(c) : c \in ACPContainers}

\* current_placements of a key no instance was constructed for yet.
NoPlacements == [id \in ItemIds |-> None]

\* The boxes of current_placements.values().
OccupiedSpaces(current_placements) ==
    {current_placements[id] : id \in {i \in ItemIds : current_placements[i] # None}}

_validate_coordinates(self, box) ==
    /\ ~(\/ box[1] < 0 \/ box[1] > self.width
         \/ box[2] < 0 \/ box[2] > self.depth
         \/ box[3] < 0 \/ box[3] > self.height
         \/ box[4] < 0 \/ box[4] > self.width
         \/ box[5] < 0 \/ box[5] > self.depth
         \/ box[6] < 0 \/ box[6] > self.height)
    /\ ~(\/ box[4] <= box[1]
         \/ box[5] <= box[2]
         \/ box[6] <= box[3])

_check_overlap(item1, item2) ==
    ~(\/ Mill(item1[4]) <= Mill(item2[1]) + EPSILON
      \/ Mill(item1[1]) >= Mill(item2[4]) - EPSILON
      \/ Mill(item1[5]) <= Mill(item2[2]) + EPSILON
      \/ Mill(item1[2]) >= Mill(item2[5]) - EPSILON
      \/ Mill(item1[6]) <= Mill(item2[3]) + EPSILON
      \/ Mill(item1[3]) >= Mill(item2[6]) - EPSILON)

\* The score in units of 1e-5, rounded to two decimals; the blockage term is
\* the constant 0.9 and the position is not used.
calculate_accessibility_score(pos, item) ==
    LET mass_score == IF 1000 - item.mass > 1000 THEN 1000
                      ELSE IF 1000 - item.mass < 100 THEN 100
                      ELSE 1000 - item.mass
        final_score == 400 * item.priority + 30 * mass_score + 27000
    IN 1000 * ((final_score + 500) \div 1000)

\* The box an item of the given dimensions occupies at a position.
BoxAt(pos, item) ==
    <<pos[1], pos[2], pos[3],
      pos[1] + item.width, pos[2] + item.depth, pos[3] + item.height>>

\* potential_positions: the origin and three corners of every placed box.
PotentialPositions(occupied_spaces) ==
    {<<0, 0, 0>>}
        \cup {<<s[1], s[2], s[6]>> : s \in occupied_spaces}
        \cup {<<s[4], s[2], s[3]>> : s \in occupied_spaces}
        \cup {<<s[1], s[5], s[3]>> : s \in occupied_spaces}

\* The sort key (p[2], p[1], p[0]) of potential_positions.sort.
PositionLE(p, q) ==
    \/ p[3] < q[3]
    \/ p[3] = q[3] /\ p[2] < q[2]
    \/ p[3] = q[3] /\ p[2] = q[2] /\ p[1] <= q[1]

RECURSIVE SortPositions(_)
SortPositions(S) ==
    IF S = {} THEN <<>>
    ELSE LET first == CHOOSE p \in S : \A q \in S : PositionLE(p, q)
         IN <<first>> \o SortPositions(S \ {first})

\* One candidate of the loop: skipped when the item would leave the container
\* or overlap a placed box, otherwise kept when its score beats the best.
\* best is None (best_score = -inf) or <<best_pos, best_score>>.
ConsiderPosition(self, item, occupied_spaces, best, pos, score) ==
    IF \/ Mill(pos[1] + item.width) > Mill(self.width) + EPSILON
       \/ Mill(pos[2] + item.depth) > Mill(self.depth) + EPSILON
       \/ Mill(pos[3] + item.height) > Mill(self.height) + EPSILON
    THEN best
    ELSE IF \E space \in occupied_spaces : _check_overlap(BoxAt(pos, item), space)
    THEN best
    ELSE IF best = None THEN <<pos, score>>
    ELSE IF score > best[2] THEN <<pos, score>>
    ELSE best

RECURSIVE ScanPotentialPositions(_, _, _, _, _, _)
ScanPotentialPositions(self, item, occupied_spaces, positions, k, best) ==
    IF k > Len(positions) THEN best
    ELSE ScanPotentialPositions(self, item, occupied_spaces, positions, k + 1,
             ConsiderPosition(self, item, occupied_spaces, best, positions[k],
                              calculate_accessibility_score(positions[k], item)))

BestPos(best) == IF best = None THEN None ELSE best[1]

\* _find_best_position: best_pos, or None.
_find_best_position(self, current_placements, item) ==
    BestPos(ScanPotentialPositions(self, item, OccupiedSpaces(current_placements),
                SortPositions(PotentialPositions(OccupiedSpaces(current_placements))),
                1, None))

\* get_90degree_rotations: the catalog orientation, then the rotations about
\* X, Y and Z that pass the two comparisons the code makes for each.
get_90degree_rotations(self, item) ==
    <<<<item, "NO_ROTATION">>>>
    \o (IF item.height <= self.depth /\ item.depth <= self.height
        THEN <<<<[item EXCEPT !.depth = item.height, !.height = item.depth],
                 "ROTATE_X">>>>
        ELSE <<>>)
    \o (IF item.width <= self.height /\ item.height <= self.width
        THEN <<<<[item EXCEPT !.width = item.height, !.height = item.width],
                 "ROTATE_Y">>>>
        ELSE <<>>)
    \o (IF item.width <= self.depth /\ item.depth <= self.width
        THEN <<<<[item EXCEPT !.width = item.depth, !.depth = item.width],
                 "ROTATE_Z">>>>
        ELSE <<>>)

\* The sort key (-priority, -volume) of sorted(items, ...).
ItemKeyLE(a, b) ==
    \/ a.priority > b.priority
    \/ a.priority = b.priority /\ Volume(a) >= Volume(b)

\* sorted() is stable: an item goes after every item whose key is not larger.
RECURSIVE InsertByKey(_, _)
InsertByKey(s, item) ==
    IF s = <<>> THEN <<item>>
    ELSE IF ItemKeyLE(Head(s), item) THEN <<Head(s)>> \o InsertByKey(Tail(s), item)
    ELSE <<item>> \o s

RECURSIVE sorted_items(_)
sorted_items(items) ==
    IF items = <<>> THEN <<>>
    ELSE InsertByKey(sorted_items(SubSeq(items, 1, Len(items) - 1)), items[Len(items)])

RECURSIVE TryRotations(_, _, _, _)

\* The body of the rotation loop once _find_best_position has answered.
TryRotation(self, rotations, r, acc, best_pos) ==
    IF best_pos = None THEN TryRotations(self, rotations, r + 1, acc)
    ELSE IF ~_validate_coordinates(self, BoxAt(best_pos, rotations[r][1]))
    THEN TryRotations(self, rotations, r + 1, acc)
    ELSE [current_placements |->
              [acc.current_placements EXCEPT ![rotations[r][1].itemId] =
                   BoxAt(best_pos, rotations[r][1])],
          placements |->
              Append(acc.placements,
                     [itemId |-> rotations[r][1].itemId,
                      position |-> BoxAt(best_pos, rotations[r][1]),
                      rotation |-> rotations[r][2]])]

\* for rotated_item, rotation in rotations; an item no rotation places leaves
\* only a printed warning.
TryRotations(self, rotations, r, acc) ==
    IF r > Len(rotations) THEN acc
    ELSE TryRotation(self, rotations, r, acc,
                     _find_best_position(self, acc.current_placements, rotations[r][1]))

RECURSIVE PlaceSortedItems(_, _, _, _)
PlaceSortedItems(self, sorted, k, acc) ==
    IF k > Len(sorted) THEN acc
    ELSE PlaceSortedItems(self, sorted, k + 1,
             TryRotations(self, get_90degree_rotations(self, sorted[k]), 1, acc))

\* find_optimal_placement on an instance whose shared state is
\* current_placements: the returned pair and the state it leaves.
find_optimal_placement(self, current_placements, items) ==
    IF items = <<>>
    THEN [current_placements |-> current_placements, placements |-> <<>>]
    ELSE PlaceSortedItems(self, sorted_items(items), 1,
             [current_placements |-> current_placements, placements |-> <<>>])

\* AdvancedCargoPlacement(container).find_optimal_placement(items).
FindOptimalPlacement ==
    /\ acp_calls < MaxCalls
    /\ \E container \in ACPContainers, items \in ACPBatches :
         \E res \in {find_optimal_placement(container,
                         _container_states[container_key(container)], items)} :
             /\ _container_states' =
                    [_container_states EXCEPT ![container_key(container)] =
                         res.current_placements]
             /\ acp_last' = [containerId |-> container.containerId,
                             container_key |-> container_key(container),
                             items |-> items,
                             placements |-> res.placements,
                             rearrangements |-> <<>>]
    /\ acp_prev' = acp_last
    /\ acp_calls' = acp_calls + 1
    /\ last_op' = "find_optimal_placement"
    /\ UNCHANGED outsideACP

\* rearrange_for_new_item that has moved an item away when it fails: the
\* placement of an existing item is dropped before the error is raised.
rearrange_without_rollback(self, current_placements, items_dict, new_item) ==
    LET existing_items == {id \in items_dict : current_placements[id] # None}
        moved == CHOOSE id \in existing_items : TRUE
    IN IF _find_best_position(self, current_placements, new_item) # None
          \/ existing_items = {}
       THEN [current_placements |-> current_placements, rearrangements |-> <<>>,
             success |-> FALSE, raised |-> ""]
       ELSE [current_placements |-> [current_placements EXCEPT ![moved] = None],
             rearrangements |-> <<>>, success |-> FALSE, raised |-> "KeyError"]

\* rearrange_for_new_item on an instance whose shared state is
\* current_placements and whose items_dict holds the given ids: the returned
\* pair, what the call raised ("" when it returned) and the state it leaves.
\* With a direct position for the new item the loop is skipped; without one
\* the loop's first pass reads existing_item['mass'], a key the entries of
\* existing_items do not have.
rearrange_for_new_item(self, current_placements, items_dict, new_item) ==
    LET existing_items == {id \in items_dict : current_placements[id] # None}
    IN IF _find_best_position(self, current_placements, new_item) # None
          \/ existing_items = {}
       THEN [current_placements |-> current_placements, rearrangements |-> <<>>,
             success |-> FALSE, raised |-> ""]
       ELSE [current_placements |-> current_placements, rearrangements |-> <<>>,
             success |-> FALSE, raised |-> "KeyError"]

\* The instances the method is called on: the one that served the latest
\* find_optimal_placement call, or a new one for any container.
PlannerInstances ==
    { [container |-> c, items_dict |-> {}] : c \in ACPContainers }
    \cup (IF acp_last = None THEN {}
          ELSE { [container |-> c,
                  items_dict |-> {acp_last.items[k].itemId : k \in DOMAIN acp_last.items}] :
                   c \in {d \in ACPContainers : d.containerId = acp_last.containerId} })

RearrangeForNewItem ==
    /\ rearr_calls < MaxCalls
    /\ \E instance \in PlannerInstances, new_item \in ACPItemPool :
         \E res \in {rearrange_for_new_item(instance.container,
                          _container_states[container_key(instance.container)],
                          instance.items_dict, new_item)} :
             /\ _container_states' =
                    [_container_states EXCEPT ![container_key(instance.container)] =
                         res.current_placements]
             /\ rearr_last' = [containerId |-> instance.container.containerId,
                               items_dict |-> instance.items_dict,
                               new_item |-> new_item,
                               before |-> _container_states,
                               rearrangements |-> res.rearrangements,
                               success |-> res.success,
                               raised |-> res.raised]
    /\ rearr_calls' = rearr_calls + 1
    /\ last_op' = "rearrange_for_new_item"
    /\ UNCHANGED <<acp_last, acp_prev, acp_calls, outsideRearrange>>

(***************************************************************************)
(* SparseMatrix and the planner methods that use it                        *)
(* (src/algos/placement_algo.py).  The callers pass whole numbers; the     *)
(* model keeps them in hundredths like every other length.                 *)
(***************************************************************************)
grid_size == 1000       \* SparseMatrix.grid_size: 10 units

\* _get_grid_cell.
_get_grid_cell(x, y, z) == <<x \div grid_size, y \div grid_size, z \div grid_size>>

\* The cells the three nested loops of is_occupied, occupy and clear visit.
CellsOf(box) ==
    LET start_cell == _get_grid_cell(box[1], box[2], box[3])
        end_cell == _get_grid_cell(box[4], box[5], box[6])
    IN (start_cell[1] .. end_cell[1]) \X (start_cell[2] .. end_cell[2])
           \X (start_cell[3] .. end_cell[3])

\* SparseMatrix.is_occupied: some visited cell holds a region.
is_occupied(grid, box) == \E entry \in grid : entry[1] \in CellsOf(box)

\* SparseMatrix.occupy: the region is added to every visited cell.
occupy(grid, box) == grid \cup {<<cell, box>> : cell \in CellsOf(box)}

\* SparseMatrix.clear: the region is discarded from every visited cell.
clear(grid, box) == grid \ {<<cell, box>> : cell \in CellsOf(box)}

\* SparseMatrix.get_occupied_regions.
get_occupied_regions(grid) == {entry[2] : entry \in grid}

\* int(v) of a non-negative length.
IntOf(v) == (v \div 100) * 100

\* The region _can_place_item and _place_item hand to the matrix.
RegionOf(pos, item) ==
    <<pos[1], pos[2], pos[3],
      pos[1] + IntOf(item.width), pos[2] + IntOf(item.depth), pos[3] + IntOf(item.height)>>

\* AdvancedCargoPlacement._can_place_item.
_can_place_item(self, grid, pos, item) ==
    IF \/ pos[1] + IntOf(item.width) > self.width
       \/ pos[2] + IntOf(item.depth) > self.depth
       \/ pos[3] + IntOf(item.height) > self.height
    THEN FALSE
    ELSE ~is_occupied(grid, RegionOf(pos, item))

\* AdvancedCargoPlacement._place_item.
_place_item(grid, pos, item) == occupy(grid, RegionOf(pos, item))

\* The container the matrix of the model belongs to: 20 x 20 x 20.
contGrid == Container("contGrid", ZoneA, 2000, 2000, 2000)

\* The items and positions of the calls: cubes of 2 and of 2.5 at positions
\* that share a cell without meeting ((0,0,0) and (5,5,5)), that intersect
\* ((0,0,0) and (1,1,1)), that end on a cell border ((8,0,0)), that lie in
\* another cell ((12,0,0)), or that leave the container ((19,0,0)).
MatrixItems ==
    { Item(21, 200, 200, 200, 10, 50, ZoneA),
      Item(22, 250, 250, 250, 10, 50, ZoneA) }

MatrixPositions ==
    { <<0, 0, 0>>, <<500, 500, 500>>, <<100, 100, 100>>, <<800, 0, 0>>,
      <<1200, 0, 0>>, <<1900, 0, 0>> }

MatrixBoxes ==
    { <<p[1], p[2], p[3], p[1] + 200, p[2] + 200, p[3] + 200>> :
        p \in MatrixPositions \ {<<1900, 0, 0>>} }

\* The outcome of a call: what it raised ("" when it returned) and its value.
Returned(op, box, value) ==
    [op |-> op, box |-> box, raised |-> "", value |-> value]

Occupy ==
    \E box \in MatrixBoxes :
        /\ space_matrix' = occupy(space_matrix, box)
        /\ matrix_last' = Returned("occupy", box, None)
        /\ last_op' = "occupy"
        /\ UNCHANGED outsideMatrix

Clear ==
    \E box \in MatrixBoxes :
        /\ space_matrix' = clear(space_matrix, box)
        /\ matrix_last' = Returned("clear", box, None)
        /\ last_op' = "clear"
        /\ UNCHANGED outsideMatrix

IsOccupied ==
    \E box \in MatrixBoxes :
        /\ matrix_last' = Returned("is_occupied", box, is_occupied(space_matrix, box))
        /\ last_op' = "is_occupied"
        /\ UNCHANGED <<space_matrix, outsideMatrix>>

CanPlaceItem ==
    \E pos \in MatrixPositions, item \in MatrixItems :
        /\ matrix_last' = Returned("_can_place_item", RegionOf(pos, item),
                                   _can_place_item(contGrid, space_matrix, pos, item))
        /\ last_op' = "_can_place_item"
        /\ UNCHANGED <<space_matrix, outsideMatrix>>

PlaceInMatrix ==
    \E pos \in MatrixPositions, item \in MatrixItems :
        /\ space_matrix' = _place_item(space_matrix, pos, item)
        /\ matrix_last' = Returned("_place_item", RegionOf(pos, item), None)
        /\ last_op' = "_place_item"
        /\ UNCHANGED outsideMatrix

(***************************************************************************)
(* AdvancedCargoPlacement._is_blocking.                                    *)
(***************************************************************************)
\* The octree attribute of a planner instance: __init__ sets none.
PlannerOctree == None

\* _is_blocking(neighbor_id, target_pos): what the call raises ("" when it
\* returns) and the value it returns.  octree is the instance's octree
\* attribute, None when the instance has none; target_pos is <<x, y, z>>.
_is_blocking(octree, neighbor_id, target_pos) ==
    IF octree = None THEN [raised |-> "AttributeError", value |-> FALSE]
    ELSE IF neighbor_id \notin DOMAIN octree.item_nodes
    THEN [raised |-> "", value |-> FALSE]
    ELSE LET neighbor_center == octree.item_nodes[neighbor_id].center
         IN [raised |-> "",
             value |-> /\ 0 <= neighbor_center[1] /\ neighbor_center[1] <= target_pos[1]
                       /\ 0 <= neighbor_center[2] /\ neighbor_center[2] <= target_pos[2]
                       /\ 0 <= neighbor_center[3] /\ neighbor_center[3] <= target_pos[3]]

\* The boxes the model places as target and neighbour: unit cubes on the
\* floor of contBig and one level up.
BlockingBoxPool ==
    { <<x, y, z, x + 100, y + 100, z + 100>> :
        x \in {0, 100, 200}, y \in {0, 100}, z \in {0} }
    \cup { <<0, 0, 100, 100, 100, 200>> }

\* The arrangements: target "T" and neighbour "B" at two different places.
BlockingWorlds ==
    { [id \in {"T", "B"} |-> IF id = "T" THEN pair[1] ELSE pair[2]] :
        pair \in {p \in BlockingBoxPool \X BlockingBoxPool : p[1] # p[2]} }

\* One call of the blocking test for neighbour "B" and the position of target "T".
IsBlocking ==
    /\ blocking_calls < MaxCalls
    /\ blocking_boxes # None
    /\ blocking_last' =
         [neighbor_id |-> "B",
          target_pos |-> <<blocking_boxes["T"][1], blocking_boxes["T"][2],
                           blocking_boxes["T"][3]>>,
          result |-> _is_blocking(PlannerOctree, "B",
                                  <<blocking_boxes["T"][1], blocking_boxes["T"][2],
                                    blocking_boxes["T"][3]>>)]
    /\ blocking_calls' = blocking_calls + 1
    /\ last_op' = "_is_blocking"
    /\ UNCHANGED <<blocking_boxes, outsideBlocking>>

(***************************************************************************)
(* POST /api/place (src/routers/search_retrieve.py).                       *)
(*                                                                         *)
(* The "coordinates" column holds the str() of the six floats, which       *)
(* float() reads back exactly; a row carries the box the string denotes.   *)
(***************************************************************************)
PlaceStep == 5          \* the scan step of find_suitable_position, in whole units

CargoRow(id, zone, containerId, box) ==
    [itemId |-> id, zone |-> zone, containerId |-> containerId, coordinates |-> box]

\* The worlds a request is served in: the container file and the arrangement
\* file (the arrangement file always has rows, so that its columns are typed).
PlaceWorlds ==
    { [containers |-> <<contA, contBig>>,
       cargo |-> <<CargoRow(2, ZoneA, "contA", <<0, 0, 0, 100, 100, 100>>)>>],
      [containers |-> <<contBig, contA, contA2>>,
       cargo |-> <<CargoRow(7, ZoneA, "contA", <<100, 0, 0, 154, 50, 50>>)>>] }

PlaceCatalog == <<CHOOSE item \in ItemPool : item.itemId = 1,
                  CHOOSE item \in ItemPool : item.itemId = 2,
                  CHOOSE item \in ItemPool : item.itemId = 7>>

\* The requests the model sends.  Item 9 and container contX are in no file.
RequestItemIds == {1, 2, 9}

RequestContainerIds == {"contA", "contBig", "contX"}

RequestPositions ==
    { <<0, 0, 0, 100, 100, 100>>,
      <<100, 0, 0, 200, 100, 100>>,
      <<150, 0, 0, 250, 100, 100>>,       \* leaves a container of width 2.0
      <<0, 100, 0, 50, 150, 50>> }        \* not the extents of a 1.0 cube

PlaceItemRequests ==
    [itemId : RequestItemIds, containerId : RequestContainerIds,
     position : RequestPositions]

\* df.filter(pl.col("containerId") == container_id).
RowsOfContainer(df, container_id) ==
    SelectSeq(df, LAMBDA row : row.containerId = container_id)

\* The strict overlap test of find_suitable_position and place_item.
BoxesOverlap(a, b) ==
    /\ a[1] < b[4] /\ a[4] > b[1]
    /\ a[2] < b[5] /\ a[5] > b[2]
    /\ a[3] < b[6] /\ a[6] > b[3]

\* range(0, int(container - item) + 1, 5), in hundredths.
ScanRange(container_dim, item_dim) ==
    {100 * x : x \in {v \in 0..((container_dim - item_dim) \div 100) : v % PlaceStep = 0}}

\* The loops visit the positions in increasing (x, y, z).
ScanBefore(p, q) ==
    \/ p[1] < q[1]
    \/ p[1] = q[1] /\ p[2] < q[2]
    \/ p[1] = q[1] /\ p[2] = q[2] /\ p[3] <= q[3]

\* The first position of the scan whose box overlaps no existing row, or None.
FirstFree(valid, w, d, h) ==
    IF valid = {} THEN None
    ELSE LET p == CHOOSE p \in valid : \A q \in valid : ScanBefore(p, q)
         IN <<p[1], p[2], p[3], p[1] + w, p[2] + d, p[3] + h>>

\* find_suitable_position once the container row is known.
PositionInContainer(container_info, item_width, item_depth, item_height, existing_items) ==
    IF \/ item_width > container_info.width
       \/ item_depth > container_info.depth
       \/ item_height > container_info.height
    THEN None
    ELSE IF existing_items = <<>>
    THEN <<0, 0, 0, item_width, item_depth, item_height>>
    ELSE FirstFree(
             {p \in ScanRange(container_info.width, item_width)
                        \X ScanRange(container_info.depth, item_depth)
                        \X ScanRange(container_info.height, item_height) :
                  \A i \in DOMAIN existing_items :
                      ~BoxesOverlap(<<p[1], p[2], p[3], p[1] + item_width,
                                      p[2] + item_depth, p[3] + item_height>>,
                                    existing_items[i].coordinates)},
             item_width, item_depth, item_height)

find_suitable_position(container_id, item_width, item_depth, item_height, cargo_df, containers) ==
    IF RowsOfContainer(containers, container_id) = <<>> THEN None
    ELSE PositionInContainer(RowsOfContainer(containers, container_id)[1],
                             item_width, item_depth, item_height,
                             RowsOfContainer(cargo_df, container_id))

\* zone_containers: the containers of the zone by ascending volume; polars
\* leaves the order of containers of equal volume open.
ZoneContainerOrders(containers, zone) ==
    LET rows == SelectSeq(containers, LAMBDA row : row.zone = zone)
    IN { [i \in 1..Len(rows) |-> rows[p[i]]] :
           p \in {q \in Perms(Len(rows)) :
                    \A i, j \in 1..Len(rows) :
                        i < j => Volume(rows[q[i]]) <= Volume(rows[q[j]])} }

\* The orders the sort of this request can produce; none is made when the
\* requested container is in no row.
RequestZoneOrders(request, containers) ==
    IF RowsOfContainer(containers, request.containerId) = <<>> THEN {<<>>}
    ELSE ZoneContainerOrders(containers,
                             RowsOfContainer(containers, request.containerId)[1].zone)

\* request.containerId after the search for the smallest container that fits.
TargetContainerId(request, item_info, zone_containers) ==
    LET fitting == SelectSeq(zone_containers,
                       LAMBDA container : /\ item_info.width <= container.width
                                          /\ item_info.depth <= container.depth
                                          /\ item_info.height <= container.height)
    IN IF fitting # <<>> THEN fitting[1].containerId ELSE request.containerId

\* The with_columns update that moves the rows of one item.
MoveRows(cargo_df, item_id, container_id, new_position) ==
    IF new_position = None THEN cargo_df
    ELSE [i \in DOMAIN cargo_df |->
            IF cargo_df[i].itemId = item_id
            THEN [cargo_df[i] EXCEPT !.containerId = container_id,
                                     !.coordinates = new_position]
            ELSE cargo_df[i]]

\* One iteration of the loop over existing_items: the item moves to the first
\* smaller container of the zone that has a position for it.
RelocateItem(item, smaller_containers, cargo_df, containers) ==
    IF smaller_containers = <<>> THEN cargo_df
    ELSE MoveRows(cargo_df, item.itemId, smaller_containers[1].containerId,
                  find_suitable_position(smaller_containers[1].containerId,
                      item.coordinates[4] - item.coordinates[1],
                      item.coordinates[5] - item.coordinates[2],
                      item.coordinates[6] - item.coordinates[3],
                      cargo_df, containers))

SmallerContainers(item, zone_containers, container_info) ==
    SelectSeq(zone_containers,
        LAMBDA c : /\ c.width >= item.coordinates[4] - item.coordinates[1]
                   /\ c.depth >= item.coordinates[5] - item.coordinates[2]
                   /\ c.height >= item.coordinates[6] - item.coordinates[3]
                   /\ Volume(c) < Volume(container_info))

RECURSIVE RelocateExisting(_, _, _, _, _, _)
RelocateExisting(existing_items, k, cargo_df, zone_containers, container_info, containers) ==
    IF k > Len(existing_items) THEN cargo_df
    ELSE RelocateExisting(existing_items, k + 1,
             RelocateItem(existing_items[k],
                          SmallerContainers(existing_items[k], zone_containers, container_info),
                          cargo_df, containers),
             zone_containers, container_info, containers)

Rejected(cargo_df) == [success |-> FALSE, cargo_df |-> cargo_df]

\* The check that hands back the frame it was working on when it rejects.
CheckAndWriteWorkingFrame(request, target_id, zone, original, cargo_df) ==
    IF \E i \in DOMAIN cargo_df :
           /\ cargo_df[i].containerId = target_id
           /\ cargo_df[i].itemId # request.itemId
           /\ BoxesOverlap(request.position, cargo_df[i].coordinates)
    THEN Rejected(cargo_df)
    ELSE IF \E i \in DOMAIN cargo_df : cargo_df[i].itemId = request.itemId
    THEN [success |-> TRUE,
          cargo_df |-> [i \in DOMAIN cargo_df |->
                          IF cargo_df[i].itemId = request.itemId
                          THEN CargoRow(request.itemId, zone, target_id, request.position)
                          ELSE cargo_df[i]]]
    ELSE [success |-> TRUE,
          cargo_df |-> Append(cargo_df,
                              CargoRow(request.itemId, zone, target_id, request.position))]

\* The overlap check against the other items of the target container, then
\* the update of the item's rows or the append of a new row.
CheckAndWrite(request, target_id, zone, original, cargo_df) ==
    IF \E i \in DOMAIN cargo_df :
           /\ cargo_df[i].containerId = target_id
           /\ cargo_df[i].itemId # request.itemId
           /\ BoxesOverlap(request.position, cargo_df[i].coordinates)
    THEN Rejected(original)
    ELSE IF \E i \in DOMAIN cargo_df : cargo_df[i].itemId = request.itemId
    THEN [success |-> TRUE,
          cargo_df |-> [i \in DOMAIN cargo_df |->
                          IF cargo_df[i].itemId = request.itemId
                          THEN CargoRow(request.itemId, zone, target_id, request.position)
                          ELSE cargo_df[i]]]
    ELSE [success |-> TRUE,
          cargo_df |-> Append(cargo_df,
                              CargoRow(request.itemId, zone, target_id, request.position))]

\* place_item from the redirect on: target_id is request.containerId as the
\* redirect left it, container_info the row of the container first asked for.
PlaceInTarget(request, target_id, container_info, zone_containers, cargo_df, containers) ==
    CheckAndWrite(request, target_id, container_info.zone, cargo_df,
        RelocateExisting(RowsOfContainer(cargo_df, target_id), 1, cargo_df,
                         zone_containers, container_info, containers))

\* The handler: the response and the rows the arrangement file holds after it.
place_item(request, cargo_df, items, containers, zone_containers) ==
    LET item_data == SelectSeq(items, LAMBDA row : row.itemId = request.itemId)
        container_data == RowsOfContainer(containers, request.containerId)
    IN IF item_data = <<>> THEN Rejected(cargo_df)
       ELSE IF container_data = <<>> THEN Rejected(cargo_df)
       ELSE PlaceInTarget(request,
                          TargetContainerId(request, item_data[1], zone_containers),
                          container_data[1], zone_containers, cargo_df, containers)

\* POST /api/place with one request of the model.
PlaceItem ==
    /\ place_calls < MaxCalls
    /\ \E request \in PlaceItemRequests :
         \E zone_containers \in RequestZoneOrders(request, temp_containers) :
             \E res \in {place_item(request, temp_cargo, temp_items, temp_containers,
                                    zone_containers)} :
                 /\ temp_cargo' = res.cargo_df
                 /\ place_response' = [success |-> res.success]
                 /\ place_request' = request
    /\ place_calls' = place_calls + 1
    /\ last_op' = "place_item"
    /\ UNCHANGED <<temp_items, temp_containers, outsidePlace>>

(***************************************************************************)
(* POST /api/retrieve and the waste file (src/routers/search_retrieve.py). *)
(*                                                                         *)
(* Dates and timestamps are day numbers; an expiryDate is <<>> for "N/A"   *)
(* and <<day>> otherwise.                                                  *)
(***************************************************************************)
\* A row of temp_imported_items.csv with the columns retrieval reads.
StockItem(item, name, usageLimit, expiryDate) ==
    [itemId |-> item.itemId, name |-> name, width |-> item.width, depth |-> item.depth,
     height |-> item.height, mass |-> item.mass, priority |-> item.priority,
     preferredZone |-> item.preferredZone, usageLimit |-> usageLimit,
     expiryDate |-> expiryDate]

\* The item files of the retrieval worlds: items 1 and 2 have uses left, item 7
\* is imported with no use left or past its expiry date.
StockCatalogs ==
    { <<StockItem(PlaceCatalog[1], "item1", 1, <<>>),
        StockItem(PlaceCatalog[2], "item2", 1, <<>>),
        StockItem(PlaceCatalog[3], "item7", 0, <<>>)>>,
      <<StockItem(PlaceCatalog[1], "item1", 1, <<>>),
        StockItem(PlaceCatalog[2], "item2", 2, <<>>),
        StockItem(PlaceCatalog[3], "item7", 3, <<10>>)>> }

\* The arrangement of the retrieval worlds: every item of the file is placed.
StockContainers == <<contBig, contA>>

StockCargo ==
    << CargoRow(1, ZoneA, "contBig", <<0, 0, 0, 100, 100, 100>>),
       CargoRow(2, ZoneA, "contA", <<0, 0, 0, 100, 100, 100>>),
       CargoRow(7, ZoneA, "contA", <<100, 0, 0, 154, 50, 50>>) >>

\* The requests the model sends.  Item 9 is in no file.
RetrieveItemRequests ==
    [itemId : {1, 2, 7, 9}, userId : {"u1"}, timestamp : {20}]

\* add_to_waste_items: the rows of waste_items.csv after the call.  readable
\* says whether the existing file could be read and extended.
add_to_waste_items(waste, itemId, name, reason, containerId, position, readable) ==
    LET new_waste_item == [itemId |-> itemId, name |-> name, reason |-> reason,
                           containerId |-> containerId, position |-> position]
    IN IF waste = <<>> THEN <<new_waste_item>>
       ELSE IF readable THEN Append(waste, new_waste_item)
       ELSE <<new_waste_item>>

\* log_retrieval: one row more in item_retrievals.csv.
log_retrieval(log, itemId, userId, timestamp) ==
    Append(log, [itemId |-> itemId, userId |-> userId, timestamp |-> timestamp])

\* A request that changes no file.
RetrieveFailed(items, cargo_df, waste, log) ==
    [success |-> FALSE, items |-> items, cargo_df |-> cargo_df, waste |-> waste,
     log |-> log]

\* The second half of the handler: the usage limit is known to be positive.
UseItem(request, items, cargo_df, waste, log, readable, item_in_cargo, item_data, container_data) ==
    LET new_usage == item_data[1].usageLimit - 1
        updated_items == [i \in DOMAIN items |->
                            IF items[i].itemId = request.itemId
                            THEN [items[i] EXCEPT !.usageLimit = new_usage]
                            ELSE items[i]]
    IN [success |-> TRUE,
        items |-> updated_items,
        log |-> log_retrieval(log, request.itemId, request.userId, request.timestamp),
        cargo_df |-> IF new_usage = 0
                     THEN SelectSeq(cargo_df, LAMBDA row : row.itemId # request.itemId)
                     ELSE cargo_df,
        waste |-> IF new_usage = 0
                  THEN add_to_waste_items(waste, request.itemId, item_data[1].name,
                                          "Out of Uses", container_data[1].containerId,
                                          item_in_cargo[1].coordinates, readable)
                  ELSE waste]

\* The handler without the check of the usage limit.
retrieve_item_unchecked(request, items, cargo_df, containers, waste, log, readable) ==
    LET item_in_cargo == SelectSeq(cargo_df, LAMBDA row : row.itemId = request.itemId)
        item_data == SelectSeq(items, LAMBDA row : row.itemId = request.itemId)
    IN IF item_in_cargo = <<>> THEN RetrieveFailed(items, cargo_df, waste, log)
       ELSE IF item_data = <<>> THEN RetrieveFailed(items, cargo_df, waste, log)
       ELSE IF SelectSeq(containers, LAMBDA c : c.zone = item_in_cargo[1].zone) = <<>>
       THEN RetrieveFailed(items, cargo_df, waste, log)
       ELSE UseItem(request, items, cargo_df, waste, log, readable,
                    item_in_cargo, item_data,
                    SelectSeq(containers, LAMBDA c : c.zone = item_in_cargo[1].zone))

\* The handler: the response and the files after it.
retrieve_item(request, items, cargo_df, containers, waste, log, readable) ==
    LET item_in_cargo == SelectSeq(cargo_df, LAMBDA row : row.itemId = request.itemId)
        item_data == SelectSeq(items, LAMBDA row : row.itemId = request.itemId)
    IN IF item_in_cargo = <<>> THEN RetrieveFailed(items, cargo_df, waste, log)
       ELSE IF item_data = <<>> THEN RetrieveFailed(items, cargo_df, waste, log)
       ELSE IF SelectSeq(containers, LAMBDA c : c.zone = item_in_cargo[1].zone) = <<>>
       THEN RetrieveFailed(items, cargo_df, waste, log)
       ELSE IF item_data[1].usageLimit <= 0
       THEN RetrieveFailed(items, cargo_df, waste, log)
       ELSE UseItem(request, items, cargo_df, waste, log, readable,
                    item_in_cargo, item_data,
                    SelectSeq(containers, LAMBDA c : c.zone = item_in_cargo[1].zone))

\* POST /api/retrieve with one request of the model.
RetrieveItem ==
    /\ retrieve_calls < MaxCalls
    /\ \E request \in RetrieveItemRequests, readable \in BOOLEAN :
         \E res \in {retrieve_item(request, temp_items, temp_cargo, temp_containers,
                                   waste_items, item_retrievals, readable)} :
             /\ temp_items' = res.items
             /\ temp_cargo' = res.cargo_df
             /\ waste_items' = res.waste
             /\ item_retrievals' = res.log
             /\ retrieve_response' = [success |-> res.success]
             /\ retrieve_request' = request
    /\ retrieve_calls' = retrieve_calls + 1
    /\ last_op' = "retrieve_item"
    /\ UNCHANGED <<temp_containers, place_request, place_response, place_calls,
                   outsideRetrieve>>

(***************************************************************************)
(* Overlapping requests (src/routers/search_retrieve.py).                  *)
(*                                                                         *)
(* retrieve_item and place_item are coroutines (async def) whose bodies    *)
(* hold no await: the event loop that serves the requests of a process     *)
(* runs the body of one from its first line to its return before it runs   *)
(* a line of another.  A handler is the sequence of its file reads and     *)
(* writes; a request that arrives while a body runs waits for the loop.    *)
(***************************************************************************)
RequestSlots == {1, 2}

NoRequest ==
    [kind |-> "none", request |-> None, pc |-> "idle", locals |-> None,
     response |-> None, overlapped |-> FALSE]

\* The requests that overlap in the model.
ServeRequests ==
    [kind : {"retrieve"}, request : {r \in RetrieveItemRequests : r.itemId \in {1, 2}}]
    \cup [kind : {"place"},
          request : {r \in PlaceItemRequests :
                       /\ r.itemId \in {1, 2}
                       /\ r.containerId \in {"contA", "contBig"}
                       /\ r.position \in {<<0, 0, 0, 100, 100, 100>>,
                                          <<100, 0, 0, 200, 100, 100>>}}]

\* The slots whose handler is between its first line and its return.
Running(flight) ==
    {s \in DOMAIN flight : flight[s].pc \notin {"idle", "arrived", "done"}}

\* Handlers served by worker threads: a body runs whenever its request is in.
RunsOnWorkerThreads(flight, slot) == TRUE

\* The event loop runs a line of the slot's body only while no other body is
\* between its first line and its return.
RunsOnEventLoop(flight, slot) == Running(flight) \subseteq {slot}

Goto(flight, slot, pc, locals) ==
    [flight EXCEPT ![slot].pc = pc, ![slot].locals = locals]

Return(flight, slot, success) ==
    [flight EXCEPT ![slot].pc = "done", ![slot].locals = None,
                   ![slot].response = [success |-> success]]

\* A request reaches the server.
Arrive(slot) ==
    /\ inflight[slot].pc = "idle"
    /\ \E req \in ServeRequests :
         inflight' = [inflight EXCEPT ![slot] =
                        [kind |-> req.kind, request |-> req.request, pc |-> "arrived",
                         locals |-> None, response |-> None,
                         overlapped |-> \E other \in RequestSlots \ {slot} :
                                           inflight[other].pc \notin {"idle", "done"}]]
    /\ serial_world' = IF \A s \in RequestSlots : inflight[s].pc = "idle"
                       THEN [items |-> temp_items, cargo |-> temp_cargo,
                             waste |-> waste_items]
                       ELSE serial_world
    /\ last_op' = "arrive"
    /\ UNCHANGED <<temp_items, temp_cargo, waste_items, item_retrievals, outsideServe>>

\* retrieve_item up to the usage check: the three files are read.
RetrieveRead(slot) ==
    /\ inflight[slot].kind = "retrieve"
    /\ inflight[slot].pc = "arrived"
    /\ RunsOnEventLoop(inflight, slot)
    /\ LET itemId == inflight[slot].request.itemId
           item_in_cargo == SelectSeq(temp_cargo, LAMBDA row : row.itemId = itemId)
           item_data == SelectSeq(temp_items, LAMBDA row : row.itemId = itemId)
       IN inflight' =
            IF item_in_cargo = <<>> \/ item_data = <<>>
            THEN Return(inflight, slot, FALSE)
            ELSE IF SelectSeq(temp_containers,
                              LAMBDA c : c.zone = item_in_cargo[1].zone) = <<>>
            THEN Return(inflight, slot, FALSE)
            ELSE IF item_data[1].usageLimit <= 0
            THEN Return(inflight, slot, FALSE)
            ELSE Goto(inflight, slot, "write_items",
                      [items_df |-> temp_items,
                       item_in_cargo |-> item_in_cargo[1],
                       item_data |-> item_data[1],
                       container_data |->
                           SelectSeq(temp_containers,
                                     LAMBDA c : c.zone = item_in_cargo[1].zone)[1],
                       new_usage |-> item_data[1].usageLimit - 1])
    /\ last_op' = "retrieve_read"
    /\ UNCHANGED <<temp_items, temp_cargo, waste_items, item_retrievals, serial_world,
                   outsideServe>>

\* updated_items_df.write_csv(items_file) and log_retrieval.
RetrieveWriteItems(slot) ==
    /\ inflight[slot].pc = "write_items"
    /\ RunsOnEventLoop(inflight, slot)
    /\ LET locals == inflight[slot].locals
           request == inflight[slot].request
       IN /\ temp_items' = [i \in DOMAIN locals.items_df |->
                              IF locals.items_df[i].itemId = request.itemId
                              THEN [locals.items_df[i] EXCEPT
                                        !.usageLimit = locals.new_usage]
                              ELSE locals.items_df[i]]
          /\ item_retrievals' = log_retrieval(item_retrievals, request.itemId,
                                              request.userId, request.timestamp)
          /\ inflight' = IF locals.new_usage = 0
                         THEN Goto(inflight, slot, "read_cargo", locals)
                         ELSE Return(inflight, slot, TRUE)
    /\ last_op' = "retrieve_write_items"
    /\ UNCHANGED <<temp_cargo, waste_items, serial_world, outsideServe>>

\* main_cargo_df = pl.read_csv(cargo_file).
RetrieveReadCargo(slot) ==
    /\ inflight[slot].pc = "read_cargo"
    /\ RunsOnEventLoop(inflight, slot)
    /\ inflight' = Goto(inflight, slot, "write_cargo",
                        [main_cargo_df |-> temp_cargo,
                         item_in_cargo |-> inflight[slot].locals.item_in_cargo,
                         item_data |-> inflight[slot].locals.item_data,
                         container_data |-> inflight[slot].locals.container_data])
    /\ last_op' = "retrieve_read_cargo"
    /\ UNCHANGED <<temp_items, temp_cargo, waste_items, item_retrievals, serial_world,
                   outsideServe>>

\* updated_cargo_df.write_csv(cargo_file).
RetrieveWriteCargo(slot) ==
    /\ inflight[slot].pc = "write_cargo"
    /\ RunsOnEventLoop(inflight, slot)
    /\ temp_cargo' = SelectSeq(inflight[slot].locals.main_cargo_df,
                               LAMBDA row : row.itemId # inflight[slot].request.itemId)
    /\ inflight' = Goto(inflight, slot, "add_waste", inflight[slot].locals)
    /\ last_op' = "retrieve_write_cargo"
    /\ UNCHANGED <<temp_items, waste_items, item_retrievals, serial_world, outsideServe>>

\* add_to_waste_items, then the return.
RetrieveAddWaste(slot) ==
    /\ inflight[slot].pc = "add_waste"
    /\ RunsOnEventLoop(inflight, slot)
    /\ \E readable \in BOOLEAN :
         waste_items' = add_to_waste_items(waste_items, inflight[slot].request.itemId,
                            inflight[slot].locals.item_data.name, "Out of Uses",
                            inflight[slot].locals.container_data.containerId,
                            inflight[slot].locals.item_in_cargo.coordinates, readable)
    /\ inflight' = Return(inflight, slot, TRUE)
    /\ last_op' = "retrieve_add_waste"
    /\ UNCHANGED <<temp_items, temp_cargo, item_retrievals, serial_world, outsideServe>>

\* place_item up to its write: the three files are read and cargo_df is
\* computed from them.
PlaceRead(slot) ==
    /\ inflight[slot].kind = "place"
    /\ inflight[slot].pc = "arrived"
    /\ RunsOnEventLoop(inflight, slot)
    /\ \E zone_containers \in RequestZoneOrders(inflight[slot].request, temp_containers) :
         \E res \in {place_item(inflight[slot].request, temp_cargo, temp_items,
                                temp_containers, zone_containers)} :
             inflight' = IF res.success
                         THEN Goto(inflight, slot, "write_cargo_df",
                                   [cargo_df |-> res.cargo_df])
                         ELSE Return(inflight, slot, FALSE)
    /\ last_op' = "place_read"
    /\ UNCHANGED <<temp_items, temp_cargo, waste_items, item_retrievals, serial_world,
                   outsideServe>>

\* cargo_df.write_csv(cargo_file), then the return.
PlaceWrite(slot) ==
    /\ inflight[slot].pc = "write_cargo_df"
    /\ RunsOnEventLoop(inflight, slot)
    /\ temp_cargo' = inflight[slot].locals.cargo_df
    /\ inflight' = Return(inflight, slot, TRUE)
    /\ last_op' = "place_write"
    /\ UNCHANGED <<temp_items, waste_items, item_retrievals, serial_world, outsideServe>>

(***************************************************************************)
(* The logs router (src/routers/logs.py).                                  *)
(*                                                                         *)
(* A timestamp is the sequence of its characters (<<>>: none given), so    *)
(* that convert_timestamp is computed on the text.  An optional integer or *)
(* string is <<>> for None and <<v>> otherwise.  The details column, which *)
(* no operation reads back, is left out of the rows.                       *)
(***************************************************************************)
Digits == {"0", "1", "2", "3", "4", "5", "6", "7", "8", "9"}

\* c in timestamp.
Has(s, c) == \E i \in DOMAIN s : s[i] = c

\* timestamp.replace(c, '').
Without(s, c) == SelectSeq(s, LAMBDA x : x # c)

\* timestamp.split(c)[0].
Before(s, c) ==
    IF Has(s, c) THEN SubSeq(s, 1, (CHOOSE i \in DOMAIN s :
                                      s[i] = c /\ \A j \in 1..(i - 1) : s[j] # c) - 1)
    ELSE s

\* timestamp.split(c)[1]: what stands between the first and the second c.
AfterFirst(s, c) ==
    Before(SubSeq(s, Len(Before(s, c)) + 2, Len(s)), c)

\* timestamp.replace('T:', 'T').
RECURSIVE ReplaceTColon(_)
ReplaceTColon(s) ==
    IF Len(s) < 2 THEN s
    ELSE IF s[1] = "T" /\ s[2] = ":" THEN <<"T">> \o ReplaceTColon(SubSeq(s, 3, Len(s)))
    ELSE <<s[1]>> \o ReplaceTColon(Tail(s))

\* re.match(r'^\d{2}-\d{2}-\d{4}T', timestamp).
IsDayFirst(s) ==
    /\ Len(s) >= 11
    /\ \A i \in {1, 2, 4, 5, 7, 8, 9, 10} : s[i] \in Digits
    /\ s[3] = "-" /\ s[6] = "-" /\ s[11] = "T"

\* f"{year}-{month}-{day}T{time_part}".
YearFirst(s) ==
    SubSeq(s, 7, 10) \o <<"-">> \o SubSeq(s, 4, 5) \o <<"-">> \o SubSeq(s, 1, 2)
    \o <<"T">> \o AfterFirst(s, "T")

StripOffset(s) ==
    IF Has(s, "Z") THEN Without(s, "Z")
    ELSE IF Has(s, "+") THEN Before(s, "+")
    ELSE s

AddOffset(s) ==
    IF Has(s, "+") \/ Has(s, "-") \/ Has(s, "Z") THEN s
    ELSE s \o <<"+", "0", "0", ":", "0", "0">>

DayFirstToYearFirst(s) == IF IsDayFirst(s) THEN YearFirst(s) ELSE s

convert_timestamp(timestamp) ==
    IF timestamp = <<>> THEN timestamp
    ELSE AddOffset(DayFirstToYearFirst(ReplaceTColon(StripOffset(timestamp))))

\* datetime.now(timezone.utc).isoformat() at the one instant of the model.
NowIso == <<"2", "0", "2", "5", "-", "0", "3", "-", "1", "3", "T", "0", "9", ":", "3", "0", ":", "0", "0", ".", "1", "2", "3", "4", "5", "6", "+", "0", "0", ":", "0", "0">>

\* The timestamps a caller supplies: with 'Z', with '+00:00', day first, none.
TimestampForms ==
    { <<"2", "0", "2", "5", "-", "0", "3", "-", "1", "2", "T", "1", "0", ":", "0", "0", ":", "0", "0", "Z">>,
      <<"2", "0", "2", "5", "-", "0", "3", "-", "1", "2", "T", "1", "0", ":", "0", "0", ":", "0", "0", "+", "0", "0", ":", "0", "0">>,
      <<"1", "2", "-", "0", "3", "-", "2", "0", "2", "5", "T", ":", "1", "0", ":", "0", "0", ":", "0", "0">>,
      <<>> }

\* int(itemId) if itemId is not None else 0.
IntOrZero(itemId) == IF itemId = <<>> THEN 0 ELSE itemId[1]

\* str(user_id).
StrOf(user_id) == IF user_id = <<>> THEN "None" ELSE user_id[1]

\* log_action: the rows of logs.csv after the call.
log_action(logs, action_type, user_id, itemId, timestamp) ==
    Append(logs, [timestamp |-> IF timestamp # <<>> THEN convert_timestamp(timestamp)
                                ELSE NowIso,
                  user_id |-> StrOf(user_id),
                  action_type |-> action_type,
                  itemId |-> IntOrZero(itemId)])

\* The text after the seconds that "%.f%z" accepts: an optional fraction, then
\* a signed offset hh:mm.
IsOffset(s) ==
    /\ Len(s) = 6
    /\ s[1] \in {"+", "-"} /\ s[4] = ":"
    /\ \A i \in {2, 3, 5, 6} : s[i] \in Digits

IsFractionAndOffset(s) ==
    \/ IsOffset(s)
    \/ /\ Len(s) > 7
       /\ s[1] = "."
       /\ \A i \in 2..(Len(s) - 6) : s[i] \in Digits
       /\ IsOffset(SubSeq(s, Len(s) - 5, Len(s)))

\* str.strptime(pl.Datetime, format="%Y-%m-%dT%H:%M:%S%.f%z") reads the text.
Parses(s) ==
    /\ Len(s) >= 25
    /\ \A i \in {1, 2, 3, 4, 6, 7, 9, 10, 12, 13, 15, 16, 18, 19} : s[i] \in Digits
    /\ s[5] = "-" /\ s[8] = "-" /\ s[11] = "T" /\ s[14] = ":" /\ s[17] = ":"
    /\ IsFractionAndOffset(SubSeq(s, 20, Len(s)))

\* get_logs without date filters: status 500 when a stored timestamp does not
\* parse, else the rows that pass the itemId and action_type filters.
get_logs(logs, itemId, action_type) ==
    IF \E i \in DOMAIN logs : ~Parses(logs[i].timestamp)
    THEN [status |-> 500, logs |-> <<>>]
    ELSE [status |-> 200,
          logs |-> SelectSeq(logs, LAMBDA row :
                       /\ itemId = <<>> \/ row.itemId = itemId[1]
                       /\ action_type = <<>> \/ row.action_type = action_type[1])]

LogItemIds == {<<>>, <<1>>}

LogUserIds == {<<>>, <<"u1">>}

LogActionTypes == {"placement", "retrieval"}

\* The number of rows the model lets logs.csv grow to.
MaxLogs == 2

\* A direct call of log_action.
LogAction ==
    /\ Len(logs_csv) < MaxLogs
    /\ \E action_type \in LogActionTypes, user_id \in LogUserIds,
          itemId \in LogItemIds, timestamp \in TimestampForms :
         /\ logs_csv' = log_action(logs_csv, action_type, user_id, itemId, timestamp)
         /\ log_last' = [op |-> "log_action", timestamp |-> timestamp,
                         itemId |-> itemId, before |-> logs_csv, status |-> 200,
                         logs |-> <<>>]
    /\ log_calls' = log_calls + 1
    /\ last_op' = "log_action"
    /\ UNCHANGED outsideLog

\* POST /api/logs.
AddLogEntry ==
    /\ Len(logs_csv) < MaxLogs
    /\ \E action_type \in LogActionTypes, user_id \in LogUserIds,
          itemId \in LogItemIds, timestamp \in TimestampForms :
         /\ logs_csv' = log_action(logs_csv, action_type, user_id, itemId,
                                   IF timestamp # <<>> /\ timestamp[Len(timestamp)] = "Z"
                                   THEN convert_timestamp(timestamp)
                                   ELSE timestamp)
         /\ log_last' = [op |-> "add_log_entry", timestamp |-> timestamp,
                         itemId |-> itemId, before |-> logs_csv, status |-> 200,
                         logs |-> <<>>]
    /\ log_calls' = log_calls + 1
    /\ last_op' = "add_log_entry"
    /\ UNCHANGED outsideLog

\* GET /api/logs.
GetLogs ==
    /\ log_calls < MaxLogs + MaxCalls
    /\ \E itemId \in LogItemIds, action_type \in {<<>>, <<"placement">>} :
         \E res \in {get_logs(logs_csv, itemId, action_type)} :
             log_last' = [op |-> "get_logs", timestamp |-> <<>>, itemId |-> itemId,
                          before |-> logs_csv, status |-> res.status,
                          logs |-> res.logs]
    /\ log_calls' = log_calls + 1
    /\ last_op' = "get_logs"
    /\ UNCHANGED <<logs_csv, outsideLog>>

(***************************************************************************)
(* GET /api/search (src/routers/search_retrieve.py).                       *)
(*                                                                         *)
(* ItemSearchSystem (algos/search_algo.py) is not among the sources; its   *)
(* two searches are modelled from the specification: a search succeeds,    *)
(* and it finds the item iff the arrangement holds a placement of it.      *)
(***************************************************************************)
\* The item a search reports: the first placement of the item.
LocatedItem(items_data, row) ==
    [itemId |-> row.itemId, containerId |-> row.containerId, zone |-> row.zone,
     position |-> row.coordinates]

NotLocated == [success |-> TRUE, found |-> FALSE, item |-> None]

search_by_id(items_data, cargo_data, itemId) ==
    LET rows == SelectSeq(cargo_data, LAMBDA row : row.itemId = itemId)
    IN IF rows = <<>> THEN NotLocated
       ELSE [success |-> TRUE, found |-> TRUE, item |-> LocatedItem(items_data, rows[1])]

search_by_name(items_data, cargo_data, name) ==
    LET rows == SelectSeq(cargo_data, LAMBDA row :
                    \E i \in DOMAIN items_data : /\ items_data[i].name = name
                                                 /\ items_data[i].itemId = row.itemId)
    IN IF rows = <<>> THEN NotLocated
       ELSE [success |-> TRUE, found |-> TRUE, item |-> LocatedItem(items_data, rows[1])]

SearchResponse(success, found, item) ==
    [success |-> success, found |-> found, item |-> item]

\* The handler: its response and the rows of logs.csv after it.
search_item(request, items, containers, cargo_df, logs) ==
    IF items = <<>> \/ containers = <<>> \/ cargo_df = <<>>
    THEN [response |-> SearchResponse(FALSE, FALSE, None), logs |-> logs]
    ELSE IF request.itemId = <<>> /\ request.name = <<>>
    THEN [response |-> SearchResponse(FALSE, FALSE, None), logs |-> logs]
    ELSE LET result == IF request.itemId # <<>>
                       THEN search_by_id(items, cargo_df, request.itemId[1])
                       ELSE search_by_name(items, cargo_df, request.name[1])
         IN IF ~result.success
            THEN [response |-> SearchResponse(FALSE, FALSE, None), logs |-> logs]
            ELSE IF ~result.found
            THEN [response |-> SearchResponse(TRUE, FALSE, None), logs |-> logs]
            ELSE [response |-> SearchResponse(TRUE, TRUE, result.item),
                  logs |-> IF request.user_id # <<>>
                           THEN log_action(logs, "search", request.user_id,
                                           <<result.item.itemId>>, <<>>)
                           ELSE logs]

\* The requests the model sends.  Item 9 and the name "nothing" are in no file.
SearchRequests ==
    [itemId : {<<1>>, <<2>>, <<9>>}, name : {<<>>}, user_id : {<<>>, <<"u1">>}]
    \cup [itemId : {<<>>}, name : {<<>>, <<"item1">>, <<"nothing">>},
          user_id : {<<>>, <<"u1">>}]

\* The arrangements a search is served on: the stock, or item 1 alone.
SearchCargos == {StockCargo, SubSeq(StockCargo, 1, 1)}

\* GET /api/search with one request of the model.
SearchItem ==
    /\ search_calls < MaxCalls
    /\ \E request \in SearchRequests :
         \E res \in {search_item(request, temp_items, temp_containers, temp_cargo,
                                  logs_csv)} :
             /\ logs_csv' = res.logs
             /\ search_last' = [request |-> request, response |-> res.response,
                                before |-> [items |-> temp_items, cargo |-> temp_cargo,
                                            waste |-> waste_items, logs |-> logs_csv]]
    /\ search_calls' = search_calls + 1
    /\ last_op' = "search_item"
    /\ UNCHANGED <<log_last, log_calls, outsideSearch>>

(***************************************************************************)
(* POST /api/clear (src/routers/logs.py).                                  *)
(***************************************************************************)
\* clear_logs: logs.csv is removed and written again without rows, and the
\* files imported_containers.csv, imported_items.csv and cargo_arrangement.csv
\* are removed.
ClearLogs ==
    /\ clear_calls < MaxCalls
    /\ logs_csv' = <<>>
    /\ imported_containers' = None
    /\ imported_items' = None
    /\ cargo_arrangement' = <<>>
    /\ clear_calls' = clear_calls + 1
    /\ last_op' = "clear_logs"
    /\ UNCHANGED <<items_df, containers_df, placements_data, unplaced_items, batch_order,
                   batch_calls, batch_trail, log_last, log_calls, acpVars, placeVars,
                   retrieveVars, scanVars, blockingVars, matrixVars, rearrangeVars,
                   serveVars, searchVars, octreeVars>>

(***************************************************************************)
(* Octree (src/schemas.py).                                                *)
(*                                                                         *)
(* An octant is named by its path, the child numbers 1..8 from the root.   *)
(* Children are made on demand and start unoccupied, so the tree is the    *)
(* set of the paths whose octant is occupied.  The containers of the model *)
(* have sides that halve max_level times without a remainder.              *)
(***************************************************************************)
max_level == 5          \* Octree.__init__: Octant(..., max_level=5)

\* The octant at the path: its corner and its sizes (Octant.subdivide).
RECURSIVE OctantAt(_, _)
OctantAt(container, path) ==
    IF path = <<>>
    THEN [x |-> 0, y |-> 0, z |-> 0, width |-> container.width,
          depth |-> container.depth, height |-> container.height]
    ELSE LET parent == OctantAt(container, SubSeq(path, 1, Len(path) - 1))
             c == path[Len(path)] - 1
             half_w == parent.width \div 2
             half_d == parent.depth \div 2
             half_h == parent.height \div 2
         IN [x |-> parent.x + (IF c % 2 = 1 THEN half_w ELSE 0),
             y |-> parent.y + (IF (c \div 2) % 2 = 1 THEN half_d ELSE 0),
             z |-> parent.z + (IF c \div 4 = 1 THEN half_h ELSE 0),
             width |-> half_w, depth |-> half_d, height |-> half_h]

\* Octant.is_fitting.
is_fitting(octant, occupied, item_row) ==
    /\ ~occupied
    /\ item_row.width <= octant.width
    /\ item_row.depth <= octant.depth
    /\ item_row.height <= octant.height

NoBox(occupied) == [box |-> None, occupied |-> occupied]

\* Octant.place_item on the octant at the path, and its loop over the
\* children from child number c on.  An item that exceeds a free octant in
\* some dimension exceeds every octant below it in the same dimension, so
\* the descent the code makes from such an octant returns None from every
\* branch; the model returns None at once.
RECURSIVE OctantPlaceItem(_, _, _, _), PlaceInChildren(_, _, _, _, _)
OctantPlaceItem(container, path, item_row, occupied) ==
    IF path \in occupied
    THEN PlaceInChildren(container, path, 1, item_row, occupied)
    ELSE IF is_fitting(OctantAt(container, path), FALSE, item_row)
    THEN LET octant == OctantAt(container, path)
         IN [box |-> <<octant.x, octant.y, octant.z, octant.x + item_row.width,
                       octant.y + item_row.depth, octant.z + item_row.height>>,
             occupied |-> occupied \cup {path}]
    ELSE NoBox(occupied)

PlaceInChildren(container, path, c, item_row, occupied) ==
    IF Len(path) >= max_level \/ c > 8 THEN NoBox(occupied)
    ELSE LET result == OctantPlaceItem(container, Append(path, c), item_row, occupied)
         IN IF result.box # None THEN result
            ELSE PlaceInChildren(container, path, c + 1, item_row, occupied)

\* The containers a tree is built for and the items placed into it.
contOct == Container("contOct", ZoneA, 320, 320, 320)

contOctWide == Container("contOctWide", ZoneA, 640, 320, 320)

OctreeItems ==
    { Item(41, 320, 320, 320, 10, 50, ZoneA),
      Item(42, 160, 160, 160, 10, 50, ZoneA),
      Item(43, 100, 100, 100, 10, 50, ZoneA),
      Item(44, 100, 200, 100, 10, 50, ZoneA),
      Item(45, 60, 60, 60, 10, 50, ZoneA),
      Item(46, 330, 100, 100, 10, 50, ZoneA) }

\* The number of Octree.place_item calls the model makes on one tree.
MaxPlaced == 3

\* The Octree.place_item calls made so far.
OctreeCalls == IF octree_last = None THEN 0 ELSE octree_last.calls

\* Octree.place_item with one item of the model.
OctreePlaceItem ==
    /\ OctreeCalls < MaxPlaced
    /\ \E item_row \in OctreeItems :
         \E res \in {OctantPlaceItem(octree_container, <<>>, item_row, octree_occupied)} :
             /\ octree_occupied' = res.occupied
             /\ octree_placed' = IF res.box = None THEN octree_placed
                                  ELSE Append(octree_placed, res.box)
             /\ octree_last' = [item |-> item_row, box |-> res.box,
                                calls |-> OctreeCalls + 1]
    /\ last_op' = "octree_place_item"
    /\ UNCHANGED <<octree_container, outsideOctree>>

(***************************************************************************)
(* Specifications.  Each starts the subsystem it exercises from the worlds *)
(* of the model and leaves the other subsystems idle.                      *)
(***************************************************************************)
\* No batch call was made and no catalog is loaded.
BatchIdle ==
    /\ items_df = <<>>
    /\ containers_df = <<>>
    /\ cargo_arrangement = <<>>
    /\ placements_data = <<>>
    /\ unplaced_items = <<>>
    /\ batch_order = <<>>
    /\ batch_trail = <<>>
    /\ batch_calls = 0

\* No planner instance was constructed yet.
ACPIdle ==
    /\ _container_states = [key \in ContainerKeys |-> NoPlacements]
    /\ acp_last = None
    /\ acp_prev = None
    /\ acp_calls = 0

\* No request was served and the files are empty.
PlaceIdle ==
    /\ temp_cargo = <<>>
    /\ temp_items = <<>>
    /\ temp_containers = <<>>
    /\ place_request = None
    /\ place_response = None
    /\ place_calls = 0

\* No retrieval was served and there is no waste file.
RetrieveIdle ==
    /\ waste_items = <<>>
    /\ item_retrievals = <<>>
    /\ retrieve_request = None
    /\ retrieve_response = None
    /\ retrieve_calls = 0

\* logs.csv has no rows and no logs operation was made.
LogIdle ==
    /\ logs_csv = <<>>
    /\ log_last = None
    /\ log_calls = 0

\* No search was served.
SearchIdle ==
    /\ search_last = None
    /\ search_calls = 0

\* No clear was served and there are no import files.
ClearIdle ==
    /\ imported_items = None
    /\ imported_containers = None
    /\ clear_calls = 0

\* No tree was built.
OctreeIdle ==
    /\ octree_container = None
    /\ octree_occupied = {}
    /\ octree_placed = <<>>
    /\ octree_last = None

\* No request is being served.
ServeIdle ==
    /\ inflight = [slot \in RequestSlots |-> NoRequest]
    /\ serial_world = None

\* No rearrangement was asked for.
RearrangeIdle ==
    /\ rearr_last = None
    /\ rearr_calls = 0

\* The matrix of a planner no call was made on.
MatrixIdle ==
    /\ space_matrix = {}
    /\ matrix_last = None

\* No blocking test was made.
BlockingIdle ==
    /\ blocking_boxes = None
    /\ blocking_last = None
    /\ blocking_calls = 0

\* No position search was made outside a batch call.
ScanIdle ==
    /\ scan_container = None
    /\ scan_spaces = <<>>
    /\ scan_used = 0
    /\ scan_last = None
    /\ scan_calls = 0

InitBatch ==
    /\ items_df \in ItemCatalogs
    /\ containers_df \in ContainerWorlds
    /\ cargo_arrangement = <<>>
    /\ placements_data = <<>>
    /\ unplaced_items = <<>>
    /\ batch_order = <<>>
    /\ batch_trail = <<>>
    /\ batch_calls = 0
    /\ ACPIdle
    /\ PlaceIdle
    /\ RetrieveIdle
    /\ ScanIdle
    /\ BlockingIdle
    /\ MatrixIdle
    /\ RearrangeIdle
    /\ OctreeIdle
    /\ ClearIdle
    /\ SearchIdle
    /\ LogIdle
    /\ ServeIdle
    /\ last_op = "init"

NextBatch == OptimizePlacement \/ AddItems

SpecBatch == InitBatch /\ [][NextBatch]_vars

\* The batch planner on the catalogs that load containers up to the capacity limit.
InitGate ==
    /\ items_df \in GateCatalogs
    /\ containers_df \in GateWorlds
    /\ cargo_arrangement = <<>>
    /\ placements_data = <<>>
    /\ unplaced_items = <<>>
    /\ batch_order = <<>>
    /\ batch_trail = <<>>
    /\ batch_calls = 0
    /\ ACPIdle
    /\ PlaceIdle
    /\ RetrieveIdle
    /\ ScanIdle
    /\ BlockingIdle
    /\ MatrixIdle
    /\ RearrangeIdle
    /\ OctreeIdle
    /\ ClearIdle
    /\ SearchIdle
    /\ LogIdle
    /\ ServeIdle
    /\ last_op = "init"

NextGate == OptimizePlacement

SpecGate == InitGate /\ [][NextGate]_vars

\* The batch planner on catalogs that hold invalid items.
InitInvalid ==
    /\ items_df \in InvalidCatalogs
    /\ containers_df \in {<<contA>>, <<contA, contBig>>}
    /\ cargo_arrangement = <<>>
    /\ placements_data = <<>>
    /\ unplaced_items = <<>>
    /\ batch_order = <<>>
    /\ batch_trail = <<>>
    /\ batch_calls = 0
    /\ ACPIdle
    /\ PlaceIdle
    /\ RetrieveIdle
    /\ ScanIdle
    /\ BlockingIdle
    /\ MatrixIdle
    /\ RearrangeIdle
    /\ OctreeIdle
    /\ ClearIdle
    /\ SearchIdle
    /\ LogIdle
    /\ ServeIdle
    /\ last_op = "init"

NextInvalid == OptimizePlacement

SpecInvalid == InitInvalid /\ [][NextInvalid]_vars

InitACP ==
    /\ BatchIdle
    /\ ACPIdle
    /\ PlaceIdle
    /\ RetrieveIdle
    /\ ScanIdle
    /\ BlockingIdle
    /\ MatrixIdle
    /\ RearrangeIdle
    /\ OctreeIdle
    /\ ClearIdle
    /\ SearchIdle
    /\ LogIdle
    /\ ServeIdle
    /\ last_op = "init"

NextACP == FindOptimalPlacement

SpecACP == InitACP /\ [][NextACP]_vars

InitPlace ==
    /\ BatchIdle
    /\ ACPIdle
    /\ \E world \in PlaceWorlds :
         /\ temp_containers = world.containers
         /\ temp_cargo = world.cargo
    /\ temp_items = PlaceCatalog
    /\ place_request = None
    /\ place_response = None
    /\ place_calls = 0
    /\ RetrieveIdle
    /\ ScanIdle
    /\ BlockingIdle
    /\ MatrixIdle
    /\ RearrangeIdle
    /\ OctreeIdle
    /\ ClearIdle
    /\ SearchIdle
    /\ LogIdle
    /\ ServeIdle
    /\ last_op = "init"

NextPlace == PlaceItem

SpecPlace == InitPlace /\ [][NextPlace]_vars

\* Retrieval and placement requests over the same files.
InitStock ==
    /\ BatchIdle
    /\ ACPIdle
    /\ temp_items \in StockCatalogs
    /\ temp_containers = StockContainers
    /\ temp_cargo = StockCargo
    /\ place_request = None
    /\ place_response = None
    /\ place_calls = 0
    /\ RetrieveIdle
    /\ ScanIdle
    /\ BlockingIdle
    /\ MatrixIdle
    /\ RearrangeIdle
    /\ OctreeIdle
    /\ ClearIdle
    /\ SearchIdle
    /\ LogIdle
    /\ ServeIdle
    /\ last_op = "init"

NextStock == RetrieveItem \/ PlaceItem

SpecStock == InitStock /\ [][NextStock]_vars

\* Two requests against the files of one world, served by one event loop.
InitServe ==
    /\ BatchIdle
    /\ ACPIdle
    /\ temp_items \in StockCatalogs
    /\ temp_containers = StockContainers
    /\ temp_cargo = StockCargo
    /\ place_request = None
    /\ place_response = None
    /\ place_calls = 0
    /\ RetrieveIdle
    /\ ScanIdle
    /\ BlockingIdle
    /\ MatrixIdle
    /\ RearrangeIdle
    /\ OctreeIdle
    /\ ClearIdle
    /\ SearchIdle
    /\ LogIdle
    /\ ServeIdle
    /\ last_op = "init"

NextServe ==
    \E slot \in RequestSlots :
        \/ Arrive(slot)
        \/ RetrieveRead(slot)
        \/ RetrieveWriteItems(slot)
        \/ RetrieveReadCargo(slot)
        \/ RetrieveWriteCargo(slot)
        \/ RetrieveAddWaste(slot)
        \/ PlaceRead(slot)
        \/ PlaceWrite(slot)

SpecServe == InitServe /\ [][NextServe]_vars

\* The logs router on an empty logs.csv.
InitLogs ==
    /\ BatchIdle
    /\ ACPIdle
    /\ PlaceIdle
    /\ RetrieveIdle
    /\ ScanIdle
    /\ BlockingIdle
    /\ MatrixIdle
    /\ RearrangeIdle
    /\ OctreeIdle
    /\ ClearIdle
    /\ SearchIdle
    /\ ServeIdle
    /\ logs_csv = <<>>
    /\ log_last = None
    /\ log_calls = 0
    /\ last_op = "init"

NextLogs == LogAction \/ AddLogEntry \/ GetLogs

SpecLogs == InitLogs /\ [][NextLogs]_vars

\* Searches and retrievals on the files of one world.
InitSearch ==
    /\ BatchIdle
    /\ ACPIdle
    /\ temp_items \in StockCatalogs
    /\ temp_containers = StockContainers
    /\ temp_cargo \in SearchCargos
    /\ place_request = None
    /\ place_response = None
    /\ place_calls = 0
    /\ RetrieveIdle
    /\ ScanIdle
    /\ BlockingIdle
    /\ MatrixIdle
    /\ RearrangeIdle
    /\ OctreeIdle
    /\ ClearIdle
    /\ LogIdle
    /\ ServeIdle
    /\ SearchIdle
    /\ last_op = "init"

NextSearch == SearchItem \/ RetrieveItem

SpecSearch == InitSearch /\ [][NextSearch]_vars

\* An imported world with a log, then clears and at most MaxCalls requests in
\* any order.
InitClear ==
    /\ items_df = <<>>
    /\ containers_df = <<>>
    /\ cargo_arrangement = StockCargo
    /\ placements_data = <<>>
    /\ unplaced_items = <<>>
    /\ batch_order = <<>>
    /\ batch_trail = <<>>
    /\ batch_calls = 0
    /\ ACPIdle
    /\ temp_items \in StockCatalogs
    /\ temp_containers = StockContainers
    /\ temp_cargo = StockCargo
    /\ place_request = None
    /\ place_response = None
    /\ place_calls = 0
    /\ RetrieveIdle
    /\ ScanIdle
    /\ BlockingIdle
    /\ MatrixIdle
    /\ RearrangeIdle
    /\ OctreeIdle
    /\ ServeIdle
    /\ SearchIdle
    /\ logs_csv \in {<<>>, log_action(<<>>, "placement", <<"u1">>, <<1>>, <<>>)}
    /\ log_last = None
    /\ log_calls = 0
    /\ imported_items = temp_items
    /\ imported_containers = temp_containers
    /\ clear_calls = 0
    /\ last_op = "init"

\* The requests served so far, the clears aside.
RequestsServed == log_calls + search_calls + retrieve_calls + place_calls

NextClear ==
    \/ ClearLogs
    \/ RequestsServed < MaxCalls /\ (GetLogs \/ SearchItem \/ RetrieveItem \/ PlaceItem)

SpecClear == InitClear /\ [][NextClear]_vars

\* Octree.place_item calls on the tree of one container.
InitOctree ==
    /\ BatchIdle
    /\ ACPIdle
    /\ PlaceIdle
    /\ RetrieveIdle
    /\ ScanIdle
    /\ BlockingIdle
    /\ MatrixIdle
    /\ RearrangeIdle
    /\ ClearIdle
    /\ SearchIdle
    /\ LogIdle
    /\ ServeIdle
    /\ octree_container \in {contOct, contOctWide}
    /\ octree_occupied = {}
    /\ octree_placed = <<>>
    /\ octree_last = None
    /\ last_op = "init"

NextOctree == OctreePlaceItem

SpecOctree == InitOctree /\ [][NextOctree]_vars

\* The blocking test on a planner instance as its constructor leaves it.
InitBlocking ==
    /\ BatchIdle
    /\ ACPIdle
    /\ PlaceIdle
    /\ RetrieveIdle
    /\ ScanIdle
    /\ blocking_boxes \in BlockingWorlds
    /\ blocking_last = None
    /\ blocking_calls = 0
    /\ MatrixIdle
    /\ RearrangeIdle
    /\ OctreeIdle
    /\ ClearIdle
    /\ SearchIdle
    /\ LogIdle
    /\ ServeIdle
    /\ last_op = "init"

NextBlocking == IsBlocking

SpecBlocking == InitBlocking /\ [][NextBlocking]_vars

\* A SparseMatrix and the planner methods over it, from the empty matrix.
InitMatrix ==
    /\ BatchIdle
    /\ ACPIdle
    /\ PlaceIdle
    /\ RetrieveIdle
    /\ ScanIdle
    /\ BlockingIdle
    /\ MatrixIdle
    /\ RearrangeIdle
    /\ OctreeIdle
    /\ ClearIdle
    /\ SearchIdle
    /\ LogIdle
    /\ ServeIdle
    /\ last_op = "init"

NextMatrix == Occupy \/ Clear \/ IsOccupied \/ CanPlaceItem \/ PlaceInMatrix

SpecMatrix == InitMatrix /\ [][NextMatrix]_vars

\* The planner with its rearrangement method.
InitRearrange == InitACP

NextRearrange == FindOptimalPlacement \/ RearrangeForNewItem

SpecRearrange == InitRearrange /\ [][NextRearrange]_vars

\* find_valid_position on its own: one container, empty at first, filled by
\* the positions the function returns.
InitScan ==
    /\ BatchIdle
    /\ ACPIdle
    /\ PlaceIdle
    /\ RetrieveIdle
    /\ scan_container \in {contA, contBig, contTall}
    /\ scan_spaces = <<>>
    /\ scan_used = 0
    /\ scan_last = None
    /\ scan_calls = 0
    /\ BlockingIdle
    /\ MatrixIdle
    /\ RearrangeIdle
    /\ OctreeIdle
    /\ ClearIdle
    /\ SearchIdle
    /\ LogIdle
    /\ ServeIdle
    /\ last_op = "init"

NextScan == FindValidPosition

SpecScan == InitScan /\ [][NextScan]_vars

(***************************************************************************)
(* Vocabulary of the properties.                                           *)
(***************************************************************************)
\* The item of the latest batch call's catalog with the given id.
CatalogItem(id) == CHOOSE item \in Range(items_df) : item.itemId = id

\* The container row with the given id.
CatalogContainer(id) == CHOOSE c \in Range(containers_df) : c.containerId = id

PlacedIds == {placements_data[i].itemId : i \in DOMAIN placements_data}

\* Two boxes have intersecting interiors: they overlap on all three axes.
InteriorsIntersect(a, b) ==
    \A k \in 1..3 : a[k] < b[k + 3] /\ b[k] < a[k + 3]

AfterBatch == last_op = "optimize_placement"

(***************************************************************************)
(* Properties of the batch planner (SpecBatch).                            *)
(***************************************************************************)

\* C1: any two rows of the cargo arrangement that name the same container have
\* boxes with non-intersecting interiors, whichever calls produced them.
C1_NoOverlapInArrangement ==
    \A i, j \in DOMAIN cargo_arrangement :
        (i < j /\ cargo_arrangement[i].containerId = cargo_arrangement[j].containerId)
            => ~InteriorsIntersect(cargo_arrangement[i].coordinates,
                                   cargo_arrangement[j].coordinates)

\* C3: each item id appears in at most one row of the cargo arrangement.
C3_UniqueItemIds ==
    \A i, j \in DOMAIN cargo_arrangement :
        i # j => cargo_arrangement[i].itemId # cargo_arrangement[j].itemId

\* C7: the placement list of a batch call is in the total order priority
\* descending, then volume descending, then item id ascending.
C7_PlacedInTotalOrder ==
    AfterBatch =>
        \A i, j \in DOMAIN placements_data :
            i < j =>
                LET a == CatalogItem(placements_data[i].itemId)
                    b == CatalogItem(placements_data[j].itemId)
                IN \/ a.priority > b.priority
                   \/ a.priority = b.priority /\ Volume(a) > Volume(b)
                   \/ a.priority = b.priority /\ Volume(a) = Volume(b)
                      /\ a.itemId < b.itemId

\* The part of the order the planner keeps: the items are processed, and the
\* placement list is, in the order priority descending, then volume descending;
\* items equal in both come in any order.
PlacedByPriorityThenVolume ==
    AfterBatch =>
        /\ \A i, j \in DOMAIN batch_order :
               i < j =>
                   \/ batch_order[i].priority > batch_order[j].priority
                   \/ /\ batch_order[i].priority = batch_order[j].priority
                      /\ Volume(batch_order[i]) >= Volume(batch_order[j])
        /\ \A i, j \in DOMAIN placements_data :
               i < j =>
                   \E m, n \in DOMAIN batch_order :
                       /\ m < n
                       /\ batch_order[m].itemId = placements_data[i].itemId
                       /\ batch_order[n].itemId = placements_data[j].itemId

\* C8: a placed item is in a container whose zone equals the item's preferred
\* zone; an item whose preferred zone has no container is not placed and is
\* recorded unplaced with the no-containers-in-zone reason.
C8_ZoneRestriction ==
    AfterBatch =>
        /\ \A i \in DOMAIN placements_data :
               CatalogContainer(placements_data[i].containerId).zone
                   = CatalogItem(placements_data[i].itemId).preferredZone
        /\ \A k \in DOMAIN items_df :
               (\A c \in DOMAIN containers_df :
                    containers_df[c].zone # items_df[k].preferredZone)
                   => /\ items_df[k].itemId \notin PlacedIds
                      /\ \E u \in DOMAIN unplaced_items :
                             /\ unplaced_items[u].itemId = items_df[k].itemId
                             /\ unplaced_items[u].reason = "No containers in zone"

\* What the planner keeps of the zone restriction: the container's zone is the
\* item's preferred zone stripped of surrounding blanks, and the unplaced
\* record is written when the call gets past its guard on empty catalogs.
ZoneRestrictionStripped ==
    AfterBatch =>
        /\ \A i \in DOMAIN placements_data :
               CatalogContainer(placements_data[i].containerId).zone
                   = Strip(CatalogItem(placements_data[i].itemId).preferredZone)
        /\ \A k \in DOMAIN items_df :
               (\A c \in DOMAIN containers_df :
                    containers_df[c].zone # Strip(items_df[k].preferredZone))
                   => /\ items_df[k].itemId \notin PlacedIds
                      /\ containers_df # <<>> =>
                             \E u \in DOMAIN unplaced_items :
                                 /\ unplaced_items[u].itemId = items_df[k].itemId
                                 /\ unplaced_items[u].reason = "No containers in zone"

\* C10: the first item of a batch, when one of its six orientations fits the
\* bounding dimensions of a container of its zone (all containers are still
\* empty), is placed.
C10_RotationShortlisted ==
    (AfterBatch /\ batch_order # <<>>) =>
        ((\E c \in DOMAIN containers_df, k \in 1..6 :
              /\ containers_df[c].zone = Strip(batch_order[1].preferredZone)
              /\ Orientations(batch_order[1])[k][1] <= containers_df[c].width
              /\ Orientations(batch_order[1])[k][2] <= containers_df[c].depth
              /\ Orientations(batch_order[1])[k][3] <= containers_df[c].height)
            => batch_order[1].itemId \in PlacedIds)

(***************************************************************************)
(* Properties of the container loop of optimize_placement (SpecGate).      *)
(***************************************************************************)
\* The volume committed into container row c by the items handled before the
\* k-th item of the latest call, counted from the items' catalog rows.
RECURSIVE UsedBefore(_, _)
UsedBefore(k, c) ==
    IF k <= 1 THEN 0
    ELSE UsedBefore(k - 1, c)
         + (IF batch_trail[k - 1].index = c
            THEN Volume(CatalogItem(batch_trail[k - 1].itemId)) ELSE 0)

\* C11: a commit goes into a container whose used-volume / volume ratio before
\* the commit is at most 0.85, and the only containers the loop passes over
\* without trying are those whose ratio exceeds 0.85.
C11_CapacityGate ==
    \A k \in DOMAIN batch_trail :
        /\ batch_trail[k].index # 0 =>
              100 * UsedBefore(k, batch_trail[k].index)
                  <= 85 * Volume(containers_df[batch_trail[k].index])
        /\ \A s \in Range(batch_trail[k].skipped) :
              100 * UsedBefore(k, s.index) > 85 * Volume(containers_df[s.index])

\* An item was committed into a container that stood at exactly 0.85.
C11_CommittedAtLimit ==
    \E k \in DOMAIN batch_trail :
        /\ batch_trail[k].index # 0
        /\ 100 * UsedBefore(k, batch_trail[k].index)
              = 85 * Volume(containers_df[batch_trail[k].index])

\* A container above 0.85 was passed over and the item went to the next one.
C11_SkippedAboveLimit ==
    \E k \in DOMAIN batch_trail :
        batch_trail[k].index # 0 /\ batch_trail[k].skipped # <<>>

\* The rows of containers_df whose zone is the item's preferred zone.
ZoneRows(item_row) ==
    {i \in DOMAIN containers_df : containers_df[i].zone = item_row.preferredZone}

\* The small flag as C12 words it: the mean is over every container of the zone.
SmallByZoneMean(item_row) ==
    10 * Cardinality(ZoneRows(item_row)) * Volume(item_row)
        < 3 * SeqSum([i \in DOMAIN containers_df |->
                        IF i \in ZoneRows(item_row) THEN Volume(containers_df[i]) ELSE 0])

\* Container row c, still empty, takes the item in some orientation.
HasFitWhenEmpty(c, item_row) ==
    TryOrientations(containers_df[c], <<>>, Orientations(item_row), 1) # None

\* C12: the first item of a call, which finds every container empty, lands in
\* the zone container that comes first among those with a fit, in ascending
\* volume when item_volume < 0.3 x the mean volume of the zone's containers
\* and in descending volume otherwise.
C12_ContainerOrdering ==
    (batch_trail # <<>> /\ batch_trail[1].index # 0) =>
        LET item_row == CatalogItem(batch_trail[1].itemId)
            chosen == Volume(containers_df[batch_trail[1].index])
        IN \A c \in ZoneRows(item_row) :
               HasFitWhenEmpty(c, item_row) =>
                   IF SmallByZoneMean(item_row)
                   THEN chosen <= Volume(containers_df[c])
                   ELSE chosen >= Volume(containers_df[c])

(***************************************************************************)
(* Properties of find_valid_position (SpecScan).                           *)
(***************************************************************************)
\* The numbers of the scanned positions of the latest call, in scan order.
ScannedOf(call) == 0 .. (ScanCount(call.container, call.w, call.d, call.h) - 1)

PointOf(call, idx) == ScanPoint(call.container, call.w, call.d, call.h, idx)

\* Scanned position idx is free in the latest call.
FreeAt(call, idx) ==
    ~check_overlap(PointOf(call, idx)[1], PointOf(call, idx)[2], PointOf(call, idx)[3],
                   call.w, call.d, call.h, call.container, call.spaces)

\* The gap between two intervals: 0 when they touch or overlap.
Gap(a0, a1, b0, b1) ==
    IF a0 > b1 THEN a0 - b1 ELSE IF b0 > a1 THEN b0 - a1 ELSE 0

\* The L-infinity distance between the box of extents w x d x h at p and a placed box.
BoxDistance(p, w, d, h, space) ==
    LET gx == Gap(p[1], p[1] + w, space[1], space[4])
        gy == Gap(p[2], p[2] + d, space[2], space[5])
        gz == Gap(p[3], p[3] + h, space[3], space[6])
    IN IF gx >= gy /\ gx >= gz THEN gx ELSE IF gy >= gz THEN gy ELSE gz

\* waste as C13 states it, with the distance to the nearest placed box.
WasteByDistance(call, p) ==
    3 * p[3]
    + Min2(p[1], call.container.width - (p[1] + call.w))
    + Min2(p[2], call.container.depth - (p[2] + call.d))
    + (IF call.spaces = <<>> THEN 0
       ELSE SetMin({BoxDistance(p, call.w, call.d, call.h, call.spaces[i]) :
                      i \in DOMAIN call.spaces}))

\* waste with the proximity term the code computes (the least of six face offsets).
WasteByFaceOffsets(call, p) ==
    Waste(p[1], p[2], p[3], call.w, call.d, call.h, call.container, call.spaces)

\* The position choice of C13 for a call, with waste given as a function of
\* the scanned position number.
PositionChoice(call, free, waste) ==
    IF free = {} THEN call.position = None
    ELSE \E idx \in free :
           /\ call.position = PointOf(call, idx)
           /\ \/ /\ waste[idx] < WasteExit
                 /\ \A j \in free : j < idx => waste[j] >= WasteExit
              \/ /\ \A j \in free : waste[j] >= WasteExit
                 /\ \A j \in free : waste[j] > waste[idx]
                                      \/ (waste[j] = waste[idx] /\ j >= idx)

\* C13: find_valid_position returns none iff no scanned position is free;
\* otherwise it returns the first free position in scan order whose waste is
\* below 1.0 or, when there is none, the free position of least waste
\* (earliest on ties), where waste = 3*z + wall offsets + the distance to the
\* nearest placed box.
C13_PositionChoice ==
    scan_last # None =>
        PositionChoice(scan_last,
                       {idx \in ScannedOf(scan_last) : FreeAt(scan_last, idx)},
                       [idx \in ScannedOf(scan_last) |->
                          WasteByDistance(scan_last, PointOf(scan_last, idx))])

\* The same rule holds of the waste the code computes.
PositionChoiceByFaceOffsets ==
    scan_last # None =>
        PositionChoice(scan_last,
                       {idx \in ScannedOf(scan_last) : FreeAt(scan_last, idx)},
                       [idx \in ScannedOf(scan_last) |->
                          WasteByFaceOffsets(scan_last, PointOf(scan_last, idx))])

(***************************************************************************)
(* Properties of retrieval and the waste file (SpecStock).                 *)
(***************************************************************************)
WasteIds == {waste_items[i].itemId : i \in DOMAIN waste_items}

\* The item's expiry date has come on the day of the clock.
Expired(item, clock) == item.expiryDate # <<>> /\ item.expiryDate[1] <= clock

\* C14: once a retrieval was served, an item of the item file is in the waste
\* list iff its expiry date is <= the clock (the request's timestamp) or its
\* usage limit is 0.
C14_WasteClassification ==
    retrieve_request # None =>
        \A i \in DOMAIN temp_items :
            (temp_items[i].itemId \in WasteIds)
                <=> (\/ Expired(temp_items[i], retrieve_request.timestamp)
                     \/ temp_items[i].usageLimit = 0)

\* The direction of C14 the handler does keep: an item in the waste list has
\* no use left.
WasteOnlyWithoutUses ==
    \A i \in DOMAIN temp_items :
        temp_items[i].itemId \in WasteIds => temp_items[i].usageLimit = 0

\* C15: a step that changes the waste list keeps every row it held, in
\* order, and adds exactly one row at the end.
C15_WasteAppendOnly ==
    [][waste_items' # waste_items =>
          /\ Len(waste_items') = Len(waste_items) + 1
          /\ SubSeq(waste_items', 1, Len(waste_items)) = waste_items]_vars

\* C16: no item is in the waste list and in the arrangement at the same time.
C16_WasteDestroysPlacement ==
    \A i \in DOMAIN temp_cargo : temp_cargo[i].itemId \notin WasteIds

\* The part of C16 the retrieval handler does keep: the request that brings
\* the usage limit to 0 leaves no row of the item in the arrangement.
RetrievalRemovesPlacement ==
    (last_op = "retrieve_item" /\ retrieve_response.success) =>
        \A i \in DOMAIN temp_items :
            (temp_items[i].itemId = retrieve_request.itemId /\ temp_items[i].usageLimit = 0)
                => \A k \in DOMAIN temp_cargo : temp_cargo[k].itemId # retrieve_request.itemId

(***************************************************************************)
(* Properties of the blocking test (SpecBlocking).                         *)
(***************************************************************************)
\* B blocks T: B lies between T and the open face y = 0 (B.y_max <= T.y_min)
\* and the x-extents and the z-extents of the two overlap.
Blocks(b, t) ==
    /\ b[5] <= t[2]
    /\ b[1] < t[4] /\ t[1] < b[4]
    /\ b[3] < t[6] /\ t[3] < b[6]

\* C17: the blocking test classifies B as blocking T iff B.y_max <= T.y_min
\* and the x-extents and z-extents of B and T overlap.
C17_BlockingTest ==
    blocking_last # None =>
        ((blocking_last.result.raised = "" /\ blocking_last.result.value)
            <=> Blocks(blocking_boxes["B"], blocking_boxes["T"]))

(***************************************************************************)
(* Properties of rearrange_for_new_item (SpecRearrange).                   *)
(***************************************************************************)
\* C20: after a call of rearrange_for_new_item that returned success = false
\* or ended with an error, current_placements of every container is what it
\* was before the call.
C20_RearrangeAllOrNothing ==
    (last_op = "rearrange_for_new_item"
        /\ (~rearr_last.success \/ rearr_last.raised # ""))
        => _container_states = rearr_last.before

\* A call ended with an error on a container that holds items and has no
\* position left for the new one.
C20_RearrangeRaised ==
    /\ last_op = "rearrange_for_new_item"
    /\ rearr_last.raised = "KeyError"
    /\ \E id \in ItemIds : rearr_last.before[container_key(
                                 CHOOSE c \in ACPContainers :
                                     c.containerId = rearr_last.containerId)][id] # None

\* A call returned success = false.
RearrangeReturnedFalse ==
    last_op = "rearrange_for_new_item" /\ rearr_last.raised = "" /\ ~rearr_last.success

(***************************************************************************)
(* Properties of the occupancy index (SpecMatrix).                         *)
(***************************************************************************)
\* The query of the latest call was answered "free".
AnsweredFree ==
    \/ matrix_last.op = "is_occupied" /\ ~matrix_last.value
    \/ matrix_last.op = "_can_place_item" /\ matrix_last.value

\* C18: a query is answered free iff its box intersects none of the boxes
\* the matrix records (and, for _can_place_item, does not leave the container).
C18_OccupancyExact ==
    (matrix_last # None /\ matrix_last.op \in {"is_occupied", "_can_place_item"}) =>
        (AnsweredFree
            <=> /\ \A region \in get_occupied_regions(space_matrix) :
                      ~InteriorsIntersect(matrix_last.box, region)
                /\ matrix_last.box[4] <= contGrid.width
                /\ matrix_last.box[5] <= contGrid.depth
                /\ matrix_last.box[6] <= contGrid.height)

\* The direction of C18 the grid does keep: a box answered free intersects
\* no recorded box.
FreeAnswerIsSound ==
    (matrix_last # None /\ matrix_last.op \in {"is_occupied", "_can_place_item"}
        /\ AnsweredFree) =>
        \A region \in get_occupied_regions(space_matrix) :
            ~InteriorsIntersect(matrix_last.box, region)

\* C19: an insert of a box for which the free check is false raises an error
\* and leaves the matrix as it was.
C19_InsertFailsLoudly ==
    [][(last_op' \in {"occupy", "_place_item"}
          /\ is_occupied(space_matrix, matrix_last'.box))
         => (matrix_last'.raised # "" /\ space_matrix' = space_matrix)]_vars

(***************************************************************************)
(* Properties of AdvancedCargoPlacement (SpecACP).                         *)
(***************************************************************************)
\* The planner state that answers which positions of a container are free.
PlannerState(container) == OccupiedSpaces(_container_states[container_key(container)])

\* C5: two consecutive planner calls with the same items for the same
\* container return the same placement list.
C5_SameInputSamePlacements ==
    (acp_prev # None
        /\ acp_last.containerId = acp_prev.containerId
        /\ acp_last.items = acp_prev.items)
        => acp_last.placements = acp_prev.placements

\* C6: a planner call for one container leaves the occupied positions of
\* every container with another id as they were.
C6_ContainerIsolation ==
    [][\A c \in ACPContainers :
           c.containerId # acp_last'.containerId => PlannerState(c)' = PlannerState(c)]_vars

\* C9: every input item of a planner call is in exactly one of the two lists
\* the call returns, the placement list or the list of items it did not place.
C9_BatchPartition ==
    acp_last # None =>
        \A k \in DOMAIN acp_last.items :
            (\E i \in DOMAIN acp_last.placements :
                 acp_last.placements[i].itemId = acp_last.items[k].itemId)
            # (\E i \in DOMAIN acp_last.rearrangements :
                   acp_last.rearrangements[i].itemId = acp_last.items[k].itemId)

(***************************************************************************)
(* Properties of POST /api/place (SpecPlace).                              *)
(***************************************************************************)
\* The row of the item file with the given id.
PlaceCatalogItem(id) == CHOOSE item \in Range(temp_items) : item.itemId = id

\* The row of the container file with the given id.
PlaceCatalogContainer(id) == CHOOSE c \in Range(temp_containers) : c.containerId = id

\* C2: every row of the arrangement has its box inside the container the row
\* names: 0 <= start and end <= the container's dimension on each axis.
C2_Containment ==
    \A i \in DOMAIN temp_cargo :
        LET box == temp_cargo[i].coordinates
            c == PlaceCatalogContainer(temp_cargo[i].containerId)
        IN /\ 0 <= box[1] /\ 0 <= box[2] /\ 0 <= box[3]
           /\ box[4] <= c.width /\ box[5] <= c.depth /\ box[6] <= c.height

\* C4: the extents of every row's box are a permutation of the catalog width,
\* depth and height of the row's item.
C4_ExtentsArePermutation ==
    \A i \in DOMAIN temp_cargo :
        LET box == temp_cargo[i].coordinates
            item == PlaceCatalogItem(temp_cargo[i].itemId)
            dims == <<item.width, item.depth, item.height>>
        IN \E p \in Perms(3) :
               /\ box[4] - box[1] = dims[p[1]]
               /\ box[5] - box[2] = dims[p[2]]
               /\ box[6] - box[3] = dims[p[3]]

(***************************************************************************)
(* Overlapping requests (SpecServe).                                       *)
(***************************************************************************)
\* The files a request leaves when it is served alone on the files w.
ServeOutcomes(req, w) ==
    IF req.kind = "retrieve"
    THEN {[items |-> res.items, cargo |-> res.cargo_df, waste |-> res.waste] :
            res \in {retrieve_item(req.request, w.items, w.cargo, temp_containers,
                                    w.waste, <<>>, readable) : readable \in BOOLEAN}}
    ELSE {[items |-> w.items, cargo |-> res.cargo_df, waste |-> w.waste] :
            res \in {place_item(req.request, w.cargo, w.items, temp_containers,
                                 zone_containers) :
                        zone_containers \in RequestZoneOrders(req.request,
                                                              temp_containers)}}

\* The files two requests leave when the second starts after the first returned.
Sequential(w, first, second) ==
    UNION {ServeOutcomes(second, v) : v \in ServeOutcomes(first, w)}

AllServed == \A slot \in RequestSlots : inflight[slot].pc = "done"

ValidItem(item) ==
    /\ item.width > 0 /\ item.depth > 0 /\ item.height > 0
    /\ item.mass >= 0
    /\ item.priority >= 0 /\ item.priority <= 100

\* C22: an item with a non-positive width, depth or height, a negative mass
\* or a priority outside [0,100] is rejected by the planner: it is in neither
\* the placement list nor the cargo arrangement.
C22_InvalidInputRejected ==
    AfterBatch =>
        \A i \in DOMAIN items_df :
            ~ValidItem(items_df[i]) =>
                /\ items_df[i].itemId \notin PlacedIds
                /\ \A k \in DOMAIN cargo_arrangement :
                       cargo_arrangement[k].itemId # items_df[i].itemId

(***************************************************************************)
(* The log file (SpecLogs).                                                *)
(***************************************************************************)
\* The text ends with a UTC offset (+hh:mm or -hh:mm).
HasUtcOffset(s) == Len(s) >= 6 /\ IsOffset(SubSeq(s, Len(s) - 5, Len(s)))

Appended == last_op \in {"log_action", "add_log_entry"}

\* C24: a log_action call, direct or through POST /api/logs, appends exactly
\* one row and keeps the earlier rows; every stored row has an integer itemId
\* (0 when none was given) and a timestamp with an explicit UTC offset, and
\* GET /api/logs can parse every stored row, whichever accepted form of
\* timestamp the caller supplied.
C24_LogAppendAndFormat ==
    /\ Appended =>
          /\ Len(logs_csv) = Len(log_last.before) + 1
          /\ SubSeq(logs_csv, 1, Len(log_last.before)) = log_last.before
          /\ logs_csv[Len(logs_csv)].itemId = IntOrZero(log_last.itemId)
    /\ \A i \in DOMAIN logs_csv :
          /\ logs_csv[i].itemId \in Int
          /\ HasUtcOffset(logs_csv[i].timestamp)
    /\ last_op = "get_logs" => log_last.status = 200

\* What does hold: one row is appended, the earlier rows stay, the itemId is
\* an integer, and a row written without a timestamp carries the offset.
LogAppendsOneRow ==
    Appended =>
        /\ Len(logs_csv) = Len(log_last.before) + 1
        /\ SubSeq(logs_csv, 1, Len(log_last.before)) = log_last.before
        /\ logs_csv[Len(logs_csv)].itemId = IntOrZero(log_last.itemId)
        /\ log_last.timestamp = <<>> =>
               /\ HasUtcOffset(logs_csv[Len(logs_csv)].timestamp)
               /\ Parses(logs_csv[Len(logs_csv)].timestamp)

(***************************************************************************)
(* Search (SpecSearch).                                                    *)
(***************************************************************************)
\* The request names an item, by id or by name, that the arrangement the
\* search was served on holds no placement of.
SearchedUnplaced ==
    /\ last_op = "search_item"
    /\ search_last.request.itemId # <<>> \/ search_last.request.name # <<>>
    /\ search_by_id(search_last.before.items, search_last.before.cargo,
                    IntOrZero(search_last.request.itemId)).found = FALSE
    /\ search_last.request.itemId = <<>> =>
          search_by_name(search_last.before.items, search_last.before.cargo,
                         StrOf(search_last.request.name)).found = FALSE

StoresAsBeforeSearch ==
    search_last.before = [items |-> temp_items, cargo |-> temp_cargo,
                          waste |-> waste_items, logs |-> logs_csv]

\* C23: a search for an item id or name that has no placement in the world
\* returns found=false with success=true and leaves the cargo, items, waste
\* and log stores unchanged.
C23_SearchMissIsNotError ==
    SearchedUnplaced =>
        /\ search_last.response.success = TRUE
        /\ search_last.response.found = FALSE
        /\ StoresAsBeforeSearch

\* What does hold: a search that misses reports found=false and writes nothing;
\* it reports success=true as long as the arrangement holds some placement.
SearchMissWritesNothing ==
    SearchedUnplaced =>
        /\ search_last.response.found = FALSE
        /\ StoresAsBeforeSearch
        /\ search_last.before.cargo # <<>> => search_last.response.success

(***************************************************************************)
(* Clear (SpecClear).                                                      *)
(***************************************************************************)
\* C25: once POST /api/clear has succeeded (and nothing was imported since),
\* GET /api/logs returns no rows, and search, retrieve and place see no
\* item, container or placement imported before the clear: the search finds
\* nothing and the retrieval and the placement do not succeed.
C25_ClearForgetsWorld ==
    clear_calls > 0 =>
        /\ last_op = "get_logs" => log_last.status = 200 /\ log_last.logs = <<>>
        /\ last_op = "search_item" => ~search_last.response.found
        /\ last_op = "retrieve_item" => ~retrieve_response.success
        /\ last_op = "place_item" => ~place_response.success

\* What does hold: the clear leaves a log without rows and removes the three
\* files it names.
ClearEmptiesLog ==
    last_op = "clear_logs" =>
        /\ logs_csv = <<>>
        /\ imported_items = None /\ imported_containers = None
        /\ cargo_arrangement = <<>>

(***************************************************************************)
(* Usage bookkeeping (SpecStock).                                          *)
(***************************************************************************)
UsageOf(items, itemId) ==
    {items[i].usageLimit : i \in {j \in DOMAIN items : items[j].itemId = itemId}}

\* The request cannot be served from these files: the item has no use left,
\* no placement or no catalog row.
NotRetrievable(items, cargo_df, itemId) ==
    \/ \A i \in DOMAIN cargo_df : cargo_df[i].itemId # itemId
    \/ UsageOf(items, itemId) = {}
    \/ \E u \in UsageOf(items, itemId) : u <= 0

\* C26: a POST /api/retrieve that returns success=true lowers the usage limit
\* of the requested item by exactly 1 and leaves every other usage limit as
\* it was; a request for an item with usage limit <= 0, or absent from the
\* arrangement or the catalog, returns success=false and changes no store;
\* no usage limit becomes negative.
C26_UsageBookkeeping ==
    [][ last_op' = "retrieve_item" =>
          /\ retrieve_response'.success =>
                /\ DOMAIN temp_items' = DOMAIN temp_items
                /\ \A i \in DOMAIN temp_items :
                      temp_items'[i] =
                          IF temp_items[i].itemId = retrieve_request'.itemId
                          THEN [temp_items[i] EXCEPT !.usageLimit = @ - 1]
                          ELSE temp_items[i]
          /\ ~retrieve_response'.success =>
                UNCHANGED <<temp_items, temp_cargo, waste_items, item_retrievals>>
          /\ NotRetrievable(temp_items, temp_cargo, retrieve_request'.itemId) =>
                ~retrieve_response'.success
          /\ \A i \in DOMAIN temp_items' : temp_items'[i].usageLimit >= 0 ]_vars

\* A retrieval succeeded and took the last use of its item; another request
\* was refused.
C26_LastUseTaken ==
    /\ last_op = "retrieve_item"
    /\ retrieve_response.success
    /\ UsageOf(temp_items, retrieve_request.itemId) = {0}
    /\ retrieve_calls = MaxCalls

\* A retrieval of an item without uses left was refused.
RetrievalRefused ==
    /\ last_op = "retrieve_item"
    /\ ~retrieve_response.success
    /\ UsageOf(temp_items, retrieve_request.itemId) = {0}

(***************************************************************************)
(* The waste entry (SpecStock).                                            *)
(***************************************************************************)
\* C27: the waste entry written when an item runs out of uses names the
\* container of the item's cargo row and the position of that placement,
\* also when the item's zone has more than one container.
C27_WasteNamesHoldingContainer ==
    [][ last_op' = "retrieve_item" /\ waste_items' # waste_items =>
          \E i \in DOMAIN temp_cargo :
              /\ temp_cargo[i].itemId = waste_items'[Len(waste_items')].itemId
              /\ temp_cargo[i].containerId = waste_items'[Len(waste_items')].containerId
              /\ temp_cargo[i].coordinates = waste_items'[Len(waste_items')].position
      ]_vars

\* What does hold: the entry carries the position of the placement and a
\* container of the placement's zone.
WasteNamesZoneContainer ==
    [][ last_op' = "retrieve_item" /\ waste_items' # waste_items =>
          \E i \in DOMAIN temp_cargo :
              /\ temp_cargo[i].itemId = waste_items'[Len(waste_items')].itemId
              /\ temp_cargo[i].coordinates = waste_items'[Len(waste_items')].position
              /\ \E c \in DOMAIN temp_containers :
                    /\ temp_containers[c].zone = temp_cargo[i].zone
                    /\ temp_containers[c].containerId
                           = waste_items'[Len(waste_items')].containerId
      ]_vars

(***************************************************************************)
(* Single placement (SpecPlace).                                           *)
(***************************************************************************)
\* The frames the relocation loop of the latest request can have produced
\* from the arrangement df.
TentativeFrames(request, df) ==
    IF \/ \A i \in DOMAIN temp_items : temp_items[i].itemId # request.itemId
       \/ RowsOfContainer(temp_containers, request.containerId) = <<>>
    THEN {df}
    ELSE { RelocateExisting(
               RowsOfContainer(df, TargetContainerId(request,
                   SelectSeq(temp_items, LAMBDA r : r.itemId = request.itemId)[1],
                   zone_containers)),
               1, df, zone_containers,
               RowsOfContainer(temp_containers, request.containerId)[1],
               temp_containers) :
             zone_containers \in RequestZoneOrders(request, temp_containers) }

\* C28: a POST /api/place that returns success=false leaves the stored cargo
\* arrangement as it was before the request, the placements of the items the
\* handler had tentatively relocated to smaller containers included.
C28_RejectedPlacementChangesNothing ==
    [][ last_op' = "place_item" /\ ~place_response'.success =>
          temp_cargo' = temp_cargo ]_vars

\* A request was rejected for an overlap after the handler had relocated an
\* item of the target container in its working frame.
C28_RejectedAfterRelocation ==
    /\ last_op = "place_item"
    /\ ~place_response.success
    /\ \A frame \in TentativeFrames(place_request, temp_cargo) : frame # temp_cargo

\* C29: after a POST /api/place that returns success=true the item has one
\* placement, in the container the request named and at the position the
\* request gave, and the placement of every other item is as before.
C29_PlacedWhereRequested ==
    [][ last_op' = "place_item" /\ place_response'.success =>
          /\ \E i \in DOMAIN temp_cargo' :
                /\ temp_cargo'[i].itemId = place_request'.itemId
                /\ temp_cargo'[i].containerId = place_request'.containerId
                /\ temp_cargo'[i].coordinates = place_request'.position
                /\ \A j \in DOMAIN temp_cargo' :
                      temp_cargo'[j].itemId = place_request'.itemId => j = i
          /\ \A i \in DOMAIN temp_cargo :
                temp_cargo[i].itemId # place_request'.itemId =>
                    \E j \in DOMAIN temp_cargo' : temp_cargo'[j] = temp_cargo[i]
      ]_vars

\* What does hold: the item has one placement, at the position the request
\* gave, in a container of the zone of the container the request named.
PlacedAtRequestedPosition ==
    [][ last_op' = "place_item" /\ place_response'.success =>
          \E i \in DOMAIN temp_cargo' :
              /\ temp_cargo'[i].itemId = place_request'.itemId
              /\ temp_cargo'[i].coordinates = place_request'.position
              /\ temp_cargo'[i].zone
                     = RowsOfContainer(temp_containers, place_request'.containerId)[1].zone
              /\ \A j \in DOMAIN temp_cargo' :
                    temp_cargo'[j].itemId = place_request'.itemId => j = i
      ]_vars

(***************************************************************************)
(* The octree (SpecOctree).                                                *)
(***************************************************************************)
InsideContainer(box, container) ==
    /\ box[1] >= 0 /\ box[2] >= 0 /\ box[3] >= 0
    /\ box[4] <= container.width /\ box[5] <= container.depth
    /\ box[6] <= container.height

\* C30: the boxes Octree.place_item returned for distinct successful calls
\* on one container have pairwise non-intersecting interiors and each lies
\* inside the container, so that a call for which no such position is left
\* returns no box.
C30_OctreeBoxesDisjoint ==
    /\ \A i \in DOMAIN octree_placed : InsideContainer(octree_placed[i], octree_container)
    /\ \A i, j \in DOMAIN octree_placed :
          i # j => ~InteriorsIntersect(octree_placed[i], octree_placed[j])

\* What does hold: every returned box lies inside the container.
OctreeBoxesInside ==
    \A i \in DOMAIN octree_placed : InsideContainer(octree_placed[i], octree_container)

====
